---- MODULE Spec2Model ----
(***************************************************************************)
(* Model of the orchestration engine of cirello.io/runner                  *)
(* (internal/runner/runner.go, first revision in the file, and             *)
(* internal/runner/cmd_others.go): the Start event loop, the build stage,  *)
(* the per-generation permanent tree, the ephemeral tree and the children  *)
(* they supervise.                                                         *)
(***************************************************************************)
EXTENDS Integers, Sequences, FiniteSets, TLC

(***************************************************************************)
(* Bounds of the model.                                                    *)
(***************************************************************************)
\* number of times the watched file is modified
MaxTouches == 1
\* number of times a child command terminates on its own
MaxExits == 1
\* largest value of the counter retries of backoff and of the number of
\* polls counted
MaxRetries == 21
\* largest number of instances of one process type
MaxCount == 2

(***************************************************************************)
(* Restart modes and signals (runner.go 66-72, 728-731).                   *)
(***************************************************************************)
OnBuild == "onbuild"
OnFailure == "fail"
Temporary == "temporary"
Loop == "loop"
Never == ""
SignalTERM == "term"
SignalKILL == "kill"

(***************************************************************************)
(* The manifest under analysis: one ON_BUILD service, one LOOP worker, one *)
(* TEMPORARY task, one ON_FAILURE job, two build steps whose names differ  *)
(* in a character that normalization rewrites, one TEMPORARY task that     *)
(* waits for a network address, and one service with the default restart   *)
(* mode.  Names are sequences of characters so that the "build" prefix     *)
(* test and the normalization of names are computed.  Output is what the   *)
(* command writes to its standard output.                                  *)
(***************************************************************************)
Processes ==
    << [Name |-> <<"b","u","i","l","d","-","a">>, Restart |-> Never,
        Signal |-> SignalKILL, WaitFor |-> "", Output |-> << >>],
       [Name |-> <<"w","e","b">>, Restart |-> OnBuild,
        Signal |-> SignalTERM, WaitFor |-> "", Output |-> << >>],
       [Name |-> <<"w">>, Restart |-> Loop,
        Signal |-> SignalKILL, WaitFor |-> "", Output |-> << >>],
       [Name |-> <<"t","m","p">>, Restart |-> Temporary,
        Signal |-> SignalKILL, WaitFor |-> "",
        Output |-> << "one", "two", "three" >>],
       [Name |-> <<"j","o","b">>, Restart |-> OnFailure,
        Signal |-> SignalTERM, WaitFor |-> "", Output |-> << >>],
       [Name |-> <<"b","u","i","l","d","_","a">>, Restart |-> Never,
        Signal |-> SignalKILL, WaitFor |-> "", Output |-> << >>],
       [Name |-> <<"a","p","i">>, Restart |-> Temporary,
        Signal |-> SignalKILL, WaitFor |-> "localhost:9999", Output |-> << >>],
       [Name |-> <<"p">>, Restart |-> Never,
        Signal |-> SignalTERM, WaitFor |-> "", Output |-> << "hello" >>] >>

ProcIdx == DOMAIN Processes

\* the formations the engine is started with: Formation[j] is the value of
\* r.Formation[r.Processes[j].Name], 0 when the map has no such key
Formations ==
    { <<1, 1, 0, 0, 0, 0, 0, 0>>,
      <<1, 0, 1, 1, 0, 0, 0, 0>>,
      <<0, 0, 1, 0, 1, 1, 0, 0>>,
      <<2, 0, 0, 2, 0, 0, 0, 0>>,
      <<1, 1, 0, 0, 0, 1, 0, 0>> }

\* the formations of the liveness analysis
FairFormations ==
    { <<1, 1, 0, 0, 0, 0, 0, 0>>,
      <<1, 0, 1, 0, 0, 0, 0, 0>> }

\* the formation of the analysis of the watcher
WatchFormations == { <<1, 0, 0, 0, 0, 0, 0, 0>> }

\* the formation of the analysis of the build stage: two build steps
StageFormations == { <<2, 0, 0, 0, 0, 1, 0, 0>> }

\* the formation of the analysis of wait_for: two instances of the task
\* that waits
WaitFormations == { <<1, 0, 0, 0, 0, 0, 2, 0>> }

\* the formations of the analysis of the logs: one build step with the
\* service that prints one line, or with the task that prints two lines
LogFormations ==
    { <<1, 0, 0, 0, 0, 0, 0, 1>>,
      <<1, 0, 0, 1, 0, 0, 0, 0>> }

\* the analysis of the resolution of wait_for: one build step with one or
\* two services, and a waitFor that resolves a target at any moment
ResolveFormations ==
    { <<1, 1, 0, 0, 0, 0, 0, 0>>,
      <<1, 1, 1, 0, 0, 0, 0, 0>> }

\* the formation of the analysis of the subscribers of the logs: one build
\* step and the service that prints one line
SubscriberFormations == { <<1, 0, 0, 0, 0, 0, 0, 1>> }

\* instance indexes 0 .. formation-1
InstIdx == 0..(MaxCount - 1)

\* the instances <<process index, instance index>> that some formation of
\* the analyses launches
LaunchedInstances ==
    {x \in ProcIdx \X InstIdx :
        \E f \in Formations \cup FairFormations \cup WatchFormations
                    \cup StageFormations \cup WaitFormations
                    \cup LogFormations \cup ResolveFormations :
            x[2] < f[x[1]]}

\* r.BasePort
BasePort == 5000

\* the files of the work directory and the paths the watcher can emit
WatchedFile == "main.go"
TestFile == "main_test.go"
Files == {WatchedFile, TestFile}
Paths == {""} \cup Files
Contents == {"h1", "h2"}

\* the content every file has in the HEAD commit of the work directory
HeadContent == "h1"

\* the name of each file, as characters
FileName ==
    [f \in Files |->
        IF f = WatchedFile THEN <<"m","a","i","n",".","g","o">>
        ELSE <<"m","a","i","n","_","t","e","s","t",".","g","o">>]

\* r.Observables as configured: observe: *.go !*_test.go
Observables ==
    << <<"*",".","g","o">>, <<"!","*","_","t","e","s","t",".","g","o">> >>

\* slices.SortStableFunc of Start: the patterns that begin with '!' first
SortObservables(obs) ==
    LET negate(p) == Len(p) > 0 /\ p[1] = "!"
        positive(p) == ~negate(p)
    IN SelectSeq(obs, negate) \o SelectSeq(obs, positive)

\* filepath.Match on a name without separator: '*' matches any run of
\* characters, '?' one character, any other character itself
RECURSIVE Glob(_, _)
Glob(p, s) ==
    IF p = << >> THEN s = << >>
    ELSE IF Head(p) = "*"
         THEN Glob(Tail(p), s) \/ (s # << >> /\ Glob(p, Tail(s)))
         ELSE /\ s # << >>
              /\ (Head(p) = "?" \/ Head(p) = Head(s))
              /\ Glob(Tail(p), Tail(s))

\* strings.Index from a position on: where sub first occurs in s at or
\* after from, 0 when it does not
IndexFrom(s, sub, from) ==
    LET hits == {i \in from..(Len(s) - Len(sub) + 1) :
                    SubSeq(s, i, i + Len(sub) - 1) = sub}
    IN IF hits = {} THEN 0 ELSE CHOOSE i \in hits : \A j \in hits : i <= j

\* strings.Replace(s, old, "", 1)
ReplaceFirst(s, old) ==
    LET i == IndexFrom(s, old, 1)
    IN IF i = 0 THEN s
       ELSE SubSeq(s, 1, i - 1) \o SubSeq(s, i + Len(old), Len(s))

\* strings.Split(s, sep) for a separator that is not empty
RECURSIVE Split(_, _)
Split(s, sep) ==
    LET i == IndexFrom(s, sep, 1)
    IN IF i = 0 THEN << s >>
       ELSE << SubSeq(s, 1, i - 1) >>
               \o Split(SubSeq(s, i + Len(sep), Len(s)), sep)

\* the elements of a path joined by the separator
RECURSIVE JoinPath(_)
JoinPath(elems) ==
    IF elems = << >> THEN << >>
    ELSE IF Len(elems) = 1 THEN elems[1]
    ELSE elems[1] \o << "/" >> \o JoinPath(Tail(elems))

\* the loop of filepath.Clean over the elements of a path: empty elements
\* and "." are dropped, ".." removes the element before it
RECURSIVE CleanWalk(_, _, _)
CleanWalk(rest, out, rooted) ==
    IF rest = << >> THEN out
    ELSE LET e == Head(rest)
         IN IF e = << >> \/ e = << "." >>
            THEN CleanWalk(Tail(rest), out, rooted)
            ELSE IF e = << ".", "." >>
            THEN IF out # << >> /\ out[Len(out)] # << ".", "." >>
                 THEN CleanWalk(Tail(rest), SubSeq(out, 1, Len(out) - 1),
                                rooted)
                 ELSE IF rooted THEN CleanWalk(Tail(rest), out, rooted)
                 ELSE CleanWalk(Tail(rest), Append(out, e), rooted)
            ELSE CleanWalk(Tail(rest), Append(out, e), rooted)

\* filepath.Clean
Clean(path) ==
    LET rooted == path # << >> /\ path[1] = "/"
        joined == JoinPath(CleanWalk(Split(path, << "/" >>), << >>, rooted))
        full == IF rooted THEN << "/" >> \o joined ELSE joined
    IN IF full = << >> THEN << "." >> ELSE full

\* a path without its trailing separators
RECURSIVE TrimSeparators(_)
TrimSeparators(path) ==
    IF path # << >> /\ path[Len(path)] = "/"
    THEN TrimSeparators(SubSeq(path, 1, Len(path) - 1))
    ELSE path

\* the position of the last separator of a path, 0 when it has none
LastSeparator(path) ==
    LET at == {i \in 1..Len(path) : path[i] = "/"}
    IN IF at = {} THEN 0 ELSE CHOOSE i \in at : \A j \in at : j <= i

\* filepath.Base
Base(path) ==
    IF path = << >> THEN << "." >>
    ELSE LET trimmed == TrimSeparators(path)
             last == SubSeq(trimmed, LastSeparator(trimmed) + 1, Len(trimmed))
         IN IF last = << >> THEN << "/" >> ELSE last

\* filepath.Dir
Dir(path) == Clean(SubSeq(path, 1, LastSeparator(path)))

\* the loop of match over the subpatterns: each one that is not empty is
\* cleaned and its first occurrence is cut out of what is left of the
\* directory
RECURSIVE Consume(_, _)
Consume(subpatterns, tmp) ==
    IF subpatterns = << >> THEN TRUE
    ELSE IF Head(subpatterns) = << >> THEN Consume(Tail(subpatterns), tmp)
    ELSE LET t == ReplaceFirst(tmp, Clean(Head(subpatterns)))
         IN IF t = tmp THEN FALSE ELSE Consume(Tail(subpatterns), t)

\* match(p, path)
match(p, path) ==
    IF ~Glob(Base(p), Base(path)) THEN FALSE
    ELSE IF Dir(p) = << "." >> THEN TRUE
    ELSE Consume(Split(Dir(p), << "*", "*" >>), Dir(path))

\* the patterns and the paths of the analysis of match: up to three
\* elements before the name of a file
MatchElems == { << "a" >>, << "b" >>, << "a", "b" >> }
MatchWild == << "*", "*" >>
\* the patterns of TestMatch other than *.go
TestPatterns ==
    { << "*", ".", "a", "g", "o" >>,
      << "t", "e", "s", "t", "/", "*", ".", "g", "o" >>,
      << "t", "e", "s", "t", "/", "*", ".", "a", "g", "o" >>,
      << "*", "*", "/", "t", "e", "s", "t", "/", "*", ".", "g", "o" >>,
      << "*", "*", "/", "t", "e", "s", "t", "/", "*", ".", "a", "g",
        "o" >>,
      << "*", "*", "/", "t", "e", "s", "t", "/", "a", "a", "/", "*", ".",
        "g", "o" >>,
      << "*", "*", "/", "t", "e", "s", "t", "/", "a", "a", "/", "*", ".",
        "a", "g", "o" >>,
      << "*", "*", "/", "t", "e", "s", "t", "/", "*", "*", "/", "t", "e",
        "s", "t", "/", "*", "*", "/", "*", ".", "g", "o" >> }
\* the paths of TestMatch
TestPaths ==
    { << "/", "t", "e", "s", "t", "/", "t", "e", "s", "t", ".", "g",
        "o" >>,
      << "/", "t", "e", "s", "t", "/", "a", "a", "/", "t", "e", "s", "t",
        "/", "t", "e", "s", "t", ".", "g", "o" >> }
\* the patterns and the paths match is applied to
MatchPatterns ==
    { << "*", ".", "g", "o" >> } \cup TestPatterns \cup
    { JoinPath(d \o << << "*", ".", "g", "o" >> >>) :
        d \in UNION { [1..n -> MatchElems \cup {MatchWild}] : n \in 1..3 } }
MatchPaths ==
    TestPaths \cup
    { root \o JoinPath(d \o << << "f", ".", "g", "o" >> >>) :
        root \in { << >>, << "/" >> },
        d \in UNION { [1..n -> MatchElems] : n \in 0..3 } }

\* the files the loop over s.Observables of a watcher finds a match for
Tracked ==
    LET obs == SortObservables(Observables)
    IN {f \in Files : \E n \in DOMAIN obs : match(obs[n], FileName[f])}

(***************************************************************************)
(* Names: fmt and normalizeByEnvVarRules.                                  *)
(***************************************************************************)
Lowers == <<"a","b","c","d","e","f","g","h","i","j","k","l","m",
            "n","o","p","q","r","s","t","u","v","w","x","y","z">>
Uppers == <<"A","B","C","D","E","F","G","H","I","J","K","L","M",
            "N","O","P","Q","R","S","T","U","V","W","X","Y","Z">>
Digits == <<"0","1","2","3","4","5","6","7","8","9">>

\* position of ch in seq, 0 when absent
IndexOf(seq, ch) ==
    IF \E n \in DOMAIN seq : seq[n] = ch
    THEN CHOOSE n \in DOMAIN seq : seq[n] = ch
    ELSE 0

\* strings.ToUpper on one character
ToUpper(ch) == IF IndexOf(Lowers, ch) > 0 THEN Uppers[IndexOf(Lowers, ch)] ELSE ch

IsDigit(ch) == IndexOf(Digits, ch) > 0
IsAlnum(ch) == IndexOf(Lowers, ch) > 0 \/ IndexOf(Uppers, ch) > 0 \/ IsDigit(ch)

\* normalizeByEnvVarRules
normalizeByEnvVarRules(name) ==
    [n \in 1..Len(name) |->
        IF (n = 1 /\ IsDigit(name[n])) \/ ~IsAlnum(name[n])
        THEN "_"
        ELSE ToUpper(name[n])]

\* the decimal digits %v and %d print for a non-negative integer
RECURSIVE Itoa(_)
Itoa(n) ==
    IF n < 10 THEN << Digits[n + 1] >>
    ELSE Itoa(n \div 10) \o << Digits[(n % 10) + 1] >>

\* fmt.Sprintf("%v.%v", name, n)
DottedName(name, n) == name \o << "." >> \o Itoa(n)

\* discoveryEnvVar
discoveryEnvVar(name, procCount) ==
    normalizeByEnvVarRules(name \o << "_" >> \o Itoa(procCount)
                             \o << "_", "P", "O", "R", "T" >>)

\* the names Start enters in nameDict
StartNames(formation) ==
    [j \in ProcIdx |->
        normalizeByEnvVarRules(DottedName(Processes[j].Name, formation[j]))]

\* the test of Start for ErrNonUniqueProcessTypeName
HasDuplicateName(formation) ==
    \E j1 \in ProcIdx, j2 \in ProcIdx :
        j1 < j2 /\ StartNames(formation)[j1] = StartNames(formation)[j2]

\* strings.HasPrefix
HasPrefix(s, p) == Len(s) >= Len(p) /\ SubSeq(s, 1, Len(p)) = p

IsBuild(j) == HasPrefix(Processes[j].Name, <<"b","u","i","l","d">>)

\* the build instances some formation launches
BuildSlots == {b \in LaunchedInstances : IsBuild(b[1])}

\* the string made of the characters of seq
RECURSIVE Str(_)
Str(seq) == IF seq = << >> THEN "" ELSE Head(seq) \o Str(Tail(seq))

(***************************************************************************)
(* The formation line of the Procfile: ParseFormation.                     *)
(***************************************************************************)
\* strings.TrimSpace for the blank and the tab
RECURSIVE TrimSpace(_)
TrimSpace(s) ==
    IF s = << >> THEN s
    ELSE IF Head(s) \in {" ", "\t"} THEN TrimSpace(Tail(s))
    ELSE IF s[Len(s)] \in {" ", "\t"}
         THEN TrimSpace(SubSeq(s, 1, Len(s) - 1))
    ELSE s

\* strings.Cut(s, sep): what precedes and what follows the first sep, all
\* of s and nothing when sep does not occur
Cut(s, sep) ==
    LET i == IndexFrom(s, sep, 1)
    IN IF i = 0 THEN [before |-> s, after |-> << >>, found |-> FALSE]
       ELSE [before |-> SubSeq(s, 1, i - 1),
             after |-> SubSeq(s, i + Len(sep), Len(s)),
             found |-> TRUE]

\* the value of a run of decimal digits
RECURSIVE DigitsValue(_)
DigitsValue(ds) ==
    IF ds = << >> THEN 0
    ELSE DigitsValue(SubSeq(ds, 1, Len(ds) - 1)) * 10
            + (IndexOf(Digits, ds[Len(ds)]) - 1)

\* strconv.Atoi for the numbers an int holds: an optional sign and at least
\* one digit, nothing else
Atoi(s) ==
    LET signed == s # << >> /\ s[1] \in {"+", "-"}
        ds == IF signed THEN Tail(s) ELSE s
        ok == ds # << >> /\ \A n \in DOMAIN ds : IsDigit(ds[n])
    IN [err |-> ~ok,
        n |-> IF ~ok THEN 0
              ELSE IF s[1] = "-" THEN 0 - DigitsValue(ds) ELSE DigitsValue(ds)]

\* ret[key] = value on a map held as a function
MapSet(ret, key, value) ==
    [x \in DOMAIN ret \cup {key} |-> IF x = key THEN value ELSE ret[x]]

\* the loop of ParseFormation over the parts of the line
RECURSIVE ParseProcs(_, _)
ParseProcs(procs, ret) ==
    IF procs = << >> THEN ret
    ELSE LET cut == Cut(Head(procs), << ":" >>)
             procName == TrimSpace(cut.before)
             quantity == Atoi(TrimSpace(cut.after))
         IN IF procName = << >> THEN ParseProcs(Tail(procs), ret)
            ELSE ParseProcs(Tail(procs),
                            MapSet(ret, procName,
                                   IF quantity.err THEN 1 ELSE quantity.n))

\* ParseFormation: the map from process name to count
ParseFormation(s) == ParseProcs(Split(s, << " " >>), << >>)

\* the formation lines of the analysis, as the parts a user writes: a
\* name, then nothing, or a separator with a number, a word or nothing
FormationNames == { << "w", "e", "b" >>, << "d", "b" >> }
Separators == { << ":" >>, << "=" >> }
Quantities ==
    {[num |-> TRUE, n |-> k, text |-> Itoa(k)] : k \in {0, 2, 10}}
       \cup {[num |-> FALSE, n |-> 0, text |-> t] : t \in {<< >>, << "a" >>}}
NoQuantity == [num |-> FALSE, n |-> 0, text |-> << >>]
BlankPart == [name |-> << >>, sep |-> << >>, qty |-> NoQuantity]
FormationParts ==
    {[name |-> n, sep |-> << >>, qty |-> NoQuantity] : n \in FormationNames}
       \cup [name : FormationNames, sep : Separators, qty : Quantities]
FormationLines ==
    UNION { [1..n -> FormationParts] : n \in 0..2 }
       \cup { << BlankPart, BlankPart >>, << BlankPart, BlankPart, BlankPart >> }

\* the text of a formation line: its parts with a blank between them
RECURSIVE FormationText(_)
FormationText(parts) ==
    IF parts = << >> THEN << >>
    ELSE LET part == Head(parts)
             text == part.name \o part.sep \o part.qty.text
         IN IF Len(parts) = 1 THEN text
            ELSE text \o << " " >> \o FormationText(Tail(parts))

\* keys of r.dynamicServiceDiscovery
StatusKey == [j \in ProcIdx |-> Str(normalizeByEnvVarRules(Processes[j].Name))]
ErrorKey == [j \in ProcIdx |-> "ERROR_" \o StatusKey[j]]
PortKey ==
    [j \in ProcIdx, i \in InstIdx |-> Str(discoveryEnvVar(Processes[j].Name, i))]
SdKeys ==
    {StatusKey[b[1]] : b \in BuildSlots} \cup {ErrorKey[b[1]] : b \in BuildSlots}
        \cup {PortKey[x[1], x[2]] : x \in LaunchedInstances}

\* membership of the permanent tree (runPermanent)
InPermanent(j) ==
    /\ ~IsBuild(j)
    /\ ~(Processes[j].Restart = Loop \/ Processes[j].Restart = Temporary
           \/ Processes[j].Restart = OnFailure)

\* membership of the ephemeral tree (runEphemeral)
InEphemeral(j) ==
    /\ ~IsBuild(j)
    /\ Processes[j].Restart \in {Loop, Temporary, OnFailure}

\* identity of the ephemeral tree; generation trees are numbered 1, 2, ...
Eph == -1
MaxGen == MaxTouches + 2
Gens == 1..MaxGen
Trees == {Eph} \cup Gens

\* every child a tree can hold: <<tree, process index, instance index>>
Kids ==
    {k \in Trees \X ProcIdx \X InstIdx :
        /\ << k[2], k[3] >> \in LaunchedInstances
        /\ IF k[1] = Eph THEN InEphemeral(k[2]) ELSE InPermanent(k[2])}

Mode(k) == Processes[k[2]].Restart

\* the signal c.Cancel of command sends
OsSignal(sv) == IF sv.Signal = SignalTERM THEN "SIGTERM" ELSE "SIGKILL"

VARIABLES
    Formation,     \* r.Formation
    pc,            \* position of the Start loop
    ret,           \* value returned by Start
    rootCancelled, \* rootCtx.Done()
    c,             \* id of the context held by variable c of Start
    cancelled,     \* ids of the contexts on which cancel() was called
    updates,       \* channel of the watcher (capacity 1)
    run,           \* channel run (capacity 1)
    fn,            \* path taken from updates by the current iteration
    fileHashes,    \* map path -> hash of Start
    ephemeralOnce, \* sync.Once of the ephemeral tree already used
    builds,        \* state of each build goroutine of the current stage
    treeSt,        \* state of each tree goroutine
    treeCtx,       \* context each tree was started under
    child,         \* state of each supervised child
    workdir,       \* files present in r.WorkDir
    gitDir,        \* isValidGitDir(r.WorkDir)
    mtime,         \* modification time of each file
    content,       \* content hash of each file
    memo,          \* modification time stored by the watcher (-1: absent)
    initialSent,   \* the initial empty path was sent
    touchesLeft,   \* modifications the developer still makes
    emitted,       \* sends on the channel of the watcher, by path
    dynamicServiceDiscovery, \* r.dynamicServiceDiscovery ("absent": no key)
    exits,         \* child commands that terminated on their own
    okStages,      \* build stages completed with result true
    lastBuild,     \* result of the last completed build stage
    ephStarts,     \* times the ephemeral tree was started
    skipped,       \* events the hash test of Start skipped
    dropped,       \* files whose last detected change the watcher did not send
    staticServiceDiscovery, \* r.staticServiceDiscovery
    listening,     \* the target of wait_for accepts connections
    stdio,         \* standard output of each child: lines written, pipe
    logs,          \* channel r.logs
    logSubscribers, \* r.logSubscribers: the channel of each subscriber
    streams,       \* the /logs request that made each of these channels
    received,      \* frames each /logs handler has written
    forwarded,     \* messages forwardLogs has taken from r.logs
    probe,         \* the last application of a function: input and result
    ticker         \* the goroutine of backoff and the loop that reads it

vars == << Formation, pc, ret, rootCancelled, c, cancelled, updates, run, fn,
           fileHashes, ephemeralOnce, builds, treeSt, treeCtx, child, workdir,
           gitDir, mtime, content, memo, initialSent, touchesLeft, emitted,
           dynamicServiceDiscovery, exits, okStages, lastBuild, ephStarts,
           skipped, dropped, staticServiceDiscovery, listening, stdio, logs,
           logSubscribers, streams, received, forwarded, probe, ticker >>

orchVars == << Formation, pc, ret, c, cancelled, run, fn, fileHashes,
               ephemeralOnce, okStages, lastBuild, ephStarts, skipped >>
watchVars == << workdir, gitDir, mtime, content, memo, initialSent,
               touchesLeft, emitted, dropped >>
logVars == << stdio, logs, logSubscribers, streams, received, forwarded >>
pureVars == << probe, ticker >>
sideVars == << staticServiceDiscovery, listening, logVars, pureVars >>

\* no function has been applied
NoProbe == [fn |-> "", in |-> << >>, out |-> << >>]

\* backoff has not been called
NoTicker == [retries |-> 0, d |-> 0, sent |-> FALSE, k |-> 0,
             sinceEmit |-> 0, reader |-> "none"]

\* a runBuilds that launches one process for each build descriptor
BuildInstances_single ==
    {b \in BuildSlots : b[2] = 0 /\ b[2] < Formation[b[1]]}

\* the instances runBuilds launches
BuildInstances == {b \in BuildSlots : b[2] < Formation[b[1]]}

\* the children a tree holds under the formation
KidsOf(t) == {k \in Kids : k[1] = t /\ k[3] < Formation[k[2]]}

NoChild == [st |-> "absent", sig |-> "", stop |-> FALSE, ok |-> TRUE,
            launches |-> 0]

NoBuilds == [b \in BuildSlots |-> "none"]

\* the children whose command writes to its standard output
LogKids == {k \in Kids : Processes[k[2]].Output # << >>}

\* the standard output of a command that has written nothing
NoOutput == [written |-> 0, pipe |-> << >>]

\* the state Start is called in: a formation drawn from fs, a work directory
\* drawn from dirs that is a git directory or not (gits), and a developer who
\* makes n modifications
StartState(fs, dirs, gits, n) ==
    /\ Formation \in fs
    /\ workdir \in dirs
    /\ gitDir \in gits
    /\ touchesLeft = n
    /\ pc = "start"
    /\ ret = "none"
    /\ rootCancelled = FALSE
    /\ c = 0
    /\ cancelled = {}
    /\ updates = << >>
    /\ run = << >>
    /\ fn = ""
    /\ fileHashes = [p \in Paths |-> "none"]
    /\ ephemeralOnce = FALSE
    /\ builds = NoBuilds
    /\ treeSt = [t \in Trees |-> "none"]
    /\ treeCtx = [t \in Trees |-> 0]
    /\ child = [k \in Kids |-> NoChild]
    /\ mtime = [f \in Files |-> 0]
    /\ content = [f \in Files |-> HeadContent]
    /\ memo = [f \in Files |-> -1]
    /\ initialSent = FALSE
    /\ emitted = [p \in Paths |-> 0]
    /\ dynamicServiceDiscovery = [key \in SdKeys |-> "absent"]
    /\ exits = 0
    /\ okStages = 0
    /\ lastBuild = "none"
    /\ ephStarts = 0
    /\ skipped = 0
    /\ dropped = {}
    /\ staticServiceDiscovery = << >>
    /\ listening = FALSE
    /\ stdio = [k \in LogKids |-> NoOutput]
    /\ logs = << >>
    /\ logSubscribers = << >>
    /\ streams = << >>
    /\ received = << >>
    /\ forwarded = << >>
    /\ probe = NoProbe
    /\ ticker = NoTicker

Init == StartState(Formations, {{WatchedFile}}, {FALSE}, MaxTouches)

(***************************************************************************)
(* Contexts.  Every context of Start derives from rootCtx.                 *)
(***************************************************************************)
CtxDone(x) == rootCancelled \/ x \in cancelled

\* an ephemeral tree bound to the generation context held by c
EphemeralCtxDone_generation == rootCancelled \/ c \in cancelled

\* context of the ephemeral tree: runEphemeral(rootCtx, "")
EphemeralCtxDone == rootCancelled

TreeCtxDone(t) == IF t = Eph THEN EphemeralCtxDone ELSE CtxDone(treeCtx[t])

\* context handed to the Start function of a child
KidCtxDone(k) == TreeCtxDone(k[1]) \/ child[k].stop

(***************************************************************************)
(* The workdir watcher (monitorWorkDirScanner / monitorGitDir).            *)
(***************************************************************************)
\* non-blocking send on a channel of capacity 1: select { case ch <- v: default: }
TrySend(ch, v) == IF Len(ch) < 1 THEN Append(ch, v) ELSE ch

\* the watcher goroutines exist: monitorWorkDir was called
WatcherStarted == pc # "start" /\ (pc = "returned" => ret = "nil")

\* the developer modifies a file, once Start has begun to watch
Touch(f) ==
    /\ pc # "start"
    /\ touchesLeft > 0
    /\ f \in workdir
    /\ touchesLeft' = touchesLeft - 1
    /\ mtime' = [mtime EXCEPT ![f] = @ + 1]
    /\ \E h \in Contents : content' = [content EXCEPT ![f] = h]
    /\ UNCHANGED << orchVars, sideVars, rootCancelled, updates, builds,
                    treeSt, treeCtx, child, workdir, gitDir, memo,
                    initialSent, emitted, dropped, dynamicServiceDiscovery,
                    exits >>

\* go func() { triggereds <- "" }()
EmitInitial ==
    /\ WatcherStarted
    /\ ~initialSent
    /\ Len(updates) < 1
    /\ updates' = Append(updates, "")
    /\ initialSent' = TRUE
    /\ emitted' = [emitted EXCEPT ![""] = @ + 1]
    /\ UNCHANGED << orchVars, sideVars, rootCancelled, builds, treeSt,
                    treeCtx, child, workdir, gitDir, mtime, content, memo,
                    touchesLeft, dropped, dynamicServiceDiscovery, exits >>

\* the files one pass of a watcher visits: filepath.Walk visits every file,
\* monitorGitDir the files git status lists (those that differ from HEAD)
\* and the keys of memo
Listed(f) ==
    /\ f \in workdir
    /\ gitDir => (content[f] # HeadContent \/ memo[f] # -1)

\* the watcher visits one file
Poll(f) ==
    /\ WatcherStarted
    /\ ~rootCancelled
    /\ Listed(f)
    /\ f \in Tracked
    /\ memo[f] # mtime[f]
    /\ memo' = [memo EXCEPT ![f] = mtime[f]]
    /\ updates' = IF memo[f] = -1 THEN updates ELSE TrySend(updates, f)
    /\ emitted' = IF memo[f] # -1 /\ Len(updates) < 1
                  THEN [emitted EXCEPT ![f] = @ + 1]
                  ELSE emitted
    /\ dropped' = IF memo[f] = -1 THEN dropped
                  ELSE IF Len(updates) < 1 THEN dropped \ {f}
                  ELSE dropped \cup {f}
    /\ UNCHANGED << orchVars, sideVars, rootCancelled, builds, treeSt,
                    treeCtx, child, workdir, gitDir, mtime, content,
                    initialSent, touchesLeft, dynamicServiceDiscovery,
                    exits >>

\* a watcher asks match whether a pattern tracks a path; one question is
\* followed in each behaviour
Match(p, path) ==
    /\ probe.fn = ""
    /\ probe' = [fn |-> "match", in |-> << p, path >>, out |-> match(p, path)]
    /\ UNCHANGED << orchVars, staticServiceDiscovery, listening, logVars,
                    ticker, rootCancelled, updates, builds, treeSt, treeCtx,
                    child, watchVars, dynamicServiceDiscovery, exits >>

\* Parse meets a formation line and calls ParseFormation with its text; one
\* line is followed in each behaviour
ParseLine(parts) ==
    /\ probe.fn = ""
    /\ probe' = [fn |-> "ParseFormation", in |-> parts,
                 out |-> ParseFormation(FormationText(parts))]
    /\ UNCHANGED << orchVars, staticServiceDiscovery, listening, logVars,
                    ticker, rootCancelled, updates, builds, treeSt, treeCtx,
                    child, watchVars, dynamicServiceDiscovery, exits >>

\* backoff(ctx, 50*time.Millisecond, 250*time.Millisecond, 5*time.Second),
\* in milliseconds
BackoffBase == 50
BackoffRetry == 250
BackoffMax == 5000

\* d = base + time.Duration(retries)*retry; if d > max { d = max }
BackoffDelay(base, retry, max, retries) ==
    IF base + retries * retry > max THEN max ELSE base + retries * retry

\* monitorGitDir starts its goroutine, which calls backoff; the field
\* sinceEmit counts the polls since the last event the watcher emitted
MonitorGitDir ==
    /\ WatcherStarted
    /\ gitDir
    /\ ticker.reader = "none"
    /\ ticker' = [ticker EXCEPT !.reader = "arriving"]
    /\ UNCHANGED << orchVars, staticServiceDiscovery, listening, logVars,
                    probe, rootCancelled, updates, builds, treeSt, treeCtx,
                    child, watchVars, dynamicServiceDiscovery, exits >>

\* the goroutine of monitorGitDir reaches the receive of `for range t`
Range ==
    /\ ticker.reader = "arriving"
    /\ ticker' = [ticker EXCEPT !.reader = "ready"]
    /\ UNCHANGED << orchVars, staticServiceDiscovery, listening, logVars,
                    probe, rootCancelled, updates, builds, treeSt, treeCtx,
                    child, watchVars, dynamicServiceDiscovery, exits >>

\* one iteration of the loop of backoff: the send on the unbuffered channel
\* succeeds when the reader waits in its receive, and the delay grows; it
\* takes the default case when the reader is elsewhere, and the delay is
\* the base again; k records the polls since the last emitted event at the
\* moment the delay is computed
BackoffTick ==
    /\ ticker.reader \in {"arriving", "ready", "busy"}
    /\ ~rootCancelled
    /\ ticker.retries < MaxRetries
    /\ ticker.sinceEmit < MaxRetries
    /\ ticker' =
          IF ticker.reader = "ready"
          THEN [retries |-> ticker.retries + 1,
                d |-> BackoffDelay(BackoffBase, BackoffRetry, BackoffMax,
                                   ticker.retries),
                sent |-> TRUE,
                k |-> ticker.sinceEmit,
                sinceEmit |-> ticker.sinceEmit + 1,
                reader |-> "busy"]
          ELSE [ticker EXCEPT !.retries = 0, !.d = BackoffBase,
                              !.sent = FALSE, !.k = ticker.sinceEmit]
    /\ UNCHANGED << orchVars, staticServiceDiscovery, listening, logVars,
                    probe, rootCancelled, updates, builds, treeSt, treeCtx,
                    child, watchVars, dynamicServiceDiscovery, exits >>

\* the body of `for range t` in monitorGitDir: one pass over the files git
\* status lists and the keys of memo; the first modified file found is sent
\* when the channel has room, the others are dropped
GitStatus ==
    /\ ticker.reader = "busy"
    /\ LET visited == {f \in Files : Listed(f) /\ f \in Tracked}
           changed == {f \in visited : memo[f] # -1 /\ memo[f] # mtime[f]}
       IN /\ memo' = [f \in Files |->
                         IF f \in visited THEN mtime[f] ELSE memo[f]]
          /\ IF changed # {} /\ Len(updates) < 1
             THEN \E f \in changed :
                     /\ updates' = Append(updates, f)
                     /\ emitted' = [emitted EXCEPT ![f] = @ + 1]
                     /\ dropped' = (dropped \ {f}) \cup (changed \ {f})
                     /\ ticker' = [ticker EXCEPT !.reader = "ready",
                                                 !.sinceEmit = 0]
             ELSE /\ dropped' = dropped \cup changed
                  /\ ticker' = [ticker EXCEPT !.reader = "ready"]
                  /\ UNCHANGED << updates, emitted >>
    /\ UNCHANGED << orchVars, staticServiceDiscovery, listening, logVars,
                    probe, rootCancelled, builds, treeSt, treeCtx, child,
                    workdir, gitDir, mtime, content, initialSent,
                    touchesLeft, dynamicServiceDiscovery, exits >>

\* the caller of Start cancels the root context
RootCancel ==
    /\ ~rootCancelled
    /\ rootCancelled' = TRUE
    /\ UNCHANGED << orchVars, sideVars, updates, builds, treeSt, treeCtx, child,
                    watchVars, dynamicServiceDiscovery, exits >>

(***************************************************************************)
(* The Start event loop.                                                   *)
(***************************************************************************)
\* calcFileHash: "" when the file cannot be opened (the empty path)
calcFileHash(p) == IF p \in workdir THEN content[p] ELSE ""

\* the error Start returns before its loop: a duplicate name, or the
\* listener of serveWeb that cannot be opened
StartError(formation, webOk) ==
    IF HasDuplicateName(formation) THEN "ErrNonUniqueProcessTypeName"
    ELSE IF ~webOk THEN "cannot serve discovery interface"
    ELSE "none"

\* prepareStaticServiceDiscovery from descriptor j on: one entry
\* << name, value >> (the string name=value) for each instance of a
\* descriptor that is neither a build nor LOOP, TEMPORARY or ON_FAILURE;
\* portCount is j*100 for every instance, it is incremented after the loop
\* over the instances
RECURSIVE StaticEntries(_, _)
StaticEntries(j, formation) ==
    IF j > Len(Processes) THEN << >>
    ELSE IF IsBuild(j)
              \/ Processes[j].Restart \in {Loop, Temporary, OnFailure}
         THEN StaticEntries(j + 1, formation)
         ELSE LET portCount == (j - 1) * 100
              IN [n \in 1..formation[j] |->
                    << Str(discoveryEnvVar(Processes[j].Name, n - 1)),
                       "localhost:" \o ToString(BasePort + portCount) >>]
                   \o StaticEntries(j + 1, formation)

\* r.staticServiceDiscovery after prepareStaticServiceDiscovery
prepareStaticServiceDiscovery(formation) ==
    IF BasePort = 0 THEN << >> ELSE StaticEntries(1, formation)

\* a Start that enters its loop whatever the error
EntersLoop_always(err) == err = err

\* Start goes on to monitorWorkDir and to its loop
EntersLoop(err) == err = "none"

\* Start up to its loop: the check of the names, serveWeb, monitorWorkDir
StartUp(webOk) ==
    /\ pc = "start"
    /\ LET err == StartError(Formation, webOk)
       IN /\ ret' = err
          /\ pc' = IF EntersLoop(err) THEN "select" ELSE "returned"
          /\ staticServiceDiscovery' =
                IF EntersLoop(err) THEN prepareStaticServiceDiscovery(Formation)
                ELSE staticServiceDiscovery
    /\ UNCHANGED << Formation, pureVars, listening, logVars, rootCancelled, c,
                    cancelled, updates, run, fn, fileHashes, ephemeralOnce,
                    builds, treeSt, treeCtx, child, watchVars,
                    dynamicServiceDiscovery, exits, okStages, lastBuild,
                    ephStarts, skipped >>

\* case fn := <-updates
RecvUpdate ==
    /\ pc = "select"
    /\ updates # << >>
    /\ fn' = Head(updates)
    /\ updates' = Tail(updates)
    /\ pc' = "hash"
    /\ UNCHANGED << Formation, sideVars, ret, rootCancelled, c, cancelled, run,
                    fileHashes, ephemeralOnce, builds, treeSt, treeCtx, child,
                    watchVars, dynamicServiceDiscovery, exits, okStages,
                    lastBuild, ephStarts, skipped >>

\* a hash test that skips the paths whose content changed
SkipsBuild_changed(oldHash, newHash, backlog) ==
    oldHash # "none" /\ newHash # oldHash /\ backlog > 0

\* a hash test that also skips the paths it sees for the first time
SkipsBuild_firstSight(oldHash, newHash, backlog) ==
    oldHash = "none" \/ (newHash = oldHash /\ backlog > 0)

\* a hash test that does not look at the events still queued
SkipsBuild_anyBacklog(oldHash, newHash, backlog) ==
    oldHash # "none" /\ newHash = oldHash

\* the hash test guarding a build stage
SkipsBuild(oldHash, newHash, backlog) ==
    oldHash # "none" /\ newHash = oldHash /\ backlog > 0

\* a deferred function that leaves the entry of a failed build as it is
FinalStatus_stuck(localOk) == IF localOk THEN "done" ELSE "building"

\* the status the deferred function of a build goroutine records
FinalStatus(localOk) == IF localOk THEN "done" ELSE "errored"

\* the key startProcess writes its address under, if it writes one
PortEntry(j, procCount, portCount) ==
    IF BasePort > 0 /\ portCount > -1 THEN {PortKey[j, procCount]} ELSE {}

\* the port startProcess computes: r.BasePort + portCount
Port(portCount) == BasePort + portCount

\* fmt.Sprint("localhost:", port)
Address(portCount) == "localhost:" \o ToString(Port(portCount))

\* the hash test, then the launch of the build goroutines of runBuilds: each
\* sets its entry to "building" and runs startProcess(ctx, sv, -1, -1, ...)
HashCheck ==
    /\ pc = "hash"
    /\ LET newHash == calcFileHash(fn)
           oldHash == fileHashes[fn]
       IN IF SkipsBuild(oldHash, newHash, Len(updates))
          THEN /\ pc' = "select"
               /\ fn' = ""
               /\ skipped' = skipped + 1
               /\ UNCHANGED << fileHashes, builds, dynamicServiceDiscovery >>
          ELSE /\ fileHashes' = [fileHashes EXCEPT ![fn] = newHash]
               /\ UNCHANGED skipped
               /\ builds' = [b \in BuildSlots |->
                               IF b \notin BuildInstances THEN "none"
                               ELSE IF CtxDone(c) THEN "errored"
                               ELSE "running"]
               /\ dynamicServiceDiscovery' =
                     [key \in SdKeys |->
                        IF \E b \in BuildInstances : key = StatusKey[b[1]]
                        THEN (IF CtxDone(c) THEN FinalStatus(FALSE) ELSE "building")
                        ELSE IF /\ CtxDone(c)
                                /\ \E b \in BuildInstances : key = ErrorKey[b[1]]
                        THEN "output"
                        ELSE IF \E b \in BuildInstances :
                                   key \in PortEntry(b[1], -1, -1)
                        THEN Address(-1)
                        ELSE dynamicServiceDiscovery[key]]
               /\ pc' = "building"
               /\ fn' = fn
    /\ UNCHANGED << Formation, sideVars, ret, rootCancelled, c, cancelled,
                    updates, run, ephemeralOnce, treeSt, treeCtx, child,
                    watchVars, exits, okStages, lastBuild, ephStarts >>

\* the context of a running build is cancelled: its Cancel function signals it
BuildSignal(b) ==
    /\ builds[b] = "running"
    /\ CtxDone(c)
    /\ builds' = [builds EXCEPT ![b] = "signalled"]
    /\ UNCHANGED << orchVars, sideVars, rootCancelled, updates, treeSt,
                    treeCtx, child, watchVars, dynamicServiceDiscovery,
                    exits >>

\* a build command terminates and the deferred function of its goroutine
\* records the outcome
BuildExit(b, ok) ==
    /\ builds[b] \in {"running", "signalled"}
    /\ LET localOk == ok /\ builds[b] = "running"
       IN /\ builds' = [builds EXCEPT ![b] = IF localOk THEN "done" ELSE "errored"]
          /\ dynamicServiceDiscovery' =
                [dynamicServiceDiscovery EXCEPT
                    ![ErrorKey[b[1]]] = IF localOk THEN "absent" ELSE "output",
                    ![StatusKey[b[1]]] = FinalStatus(localOk)]
    /\ UNCHANGED << orchVars, sideVars, rootCancelled, updates, treeSt,
                    treeCtx, child, watchVars, exits >>

\* a runBuilds that returns without waiting for its goroutines
BuildsFinished_nowait == \A b \in BuildInstances : builds[b] # "none"

\* wgBuild.Wait() can return
BuildsFinished == \A b \in BuildInstances : builds[b] \in {"done", "errored"}

\* a runBuilds that loses the failure of a build goroutine
runBuildsResult_lost(bs) == \A b \in BuildInstances : bs[b] # "none"

\* the result of runBuilds
runBuildsResult(bs) == \A b \in BuildInstances : bs[b] # "errored"

\* an orchestrator that does not test the result of runBuilds
CancelsGeneration_unchecked(ok, backlog) == backlog = 0

\* an orchestrator that does not look at the events still queued
CancelsGeneration_uncoalesced(ok, backlog) == ok

\* the orchestrator cancels the generation and asks for a new one
CancelsGeneration(ok, backlog) == ok /\ backlog = 0

\* runBuilds returns; the rest of the updates case
BuildsDone ==
    /\ pc = "building"
    /\ BuildsFinished
    /\ LET ok == runBuildsResult(builds)
       IN /\ okStages' = IF ok THEN okStages + 1 ELSE okStages
          /\ lastBuild' = IF ok THEN "ok" ELSE "failed"
          /\ IF CancelsGeneration(ok, Len(updates))
             THEN /\ cancelled' = cancelled \cup {c}
                  /\ run' = TrySend(run, fn)
             ELSE UNCHANGED << cancelled, run >>
    /\ pc' = "select"
    /\ fn' = ""
    /\ builds' = NoBuilds
    /\ UNCHANGED << Formation, sideVars, ret, rootCancelled, c, updates,
                    fileHashes, ephemeralOnce, treeSt, treeCtx, child,
                    watchVars, dynamicServiceDiscovery, exits, ephStarts,
                    skipped >>

\* an ephemeral tree started by every run step
EphemeralOnceDo_always(done) == done \/ ~done

\* ephemeralOnce.Do runs its function
EphemeralOnceDo(done) == ~done

\* case fn := <-run
RunStep ==
    /\ pc = "select"
    /\ run # << >>
    /\ run' = Tail(run)
    /\ c' = c + 1
    /\ LET startEph == EphemeralOnceDo(ephemeralOnce)
       IN /\ ephemeralOnce' = TRUE
          /\ ephStarts' = IF startEph THEN ephStarts + 1 ELSE ephStarts
          /\ treeSt' = [t \in Trees |->
                          IF t = c' THEN "spawned"
                          ELSE IF t = Eph /\ startEph THEN "active"
                          ELSE treeSt[t]]
          /\ child' = [k \in Kids |->
                          IF k \in KidsOf(Eph) /\ startEph
                          THEN [NoChild EXCEPT !.st = "idle"]
                          ELSE child[k]]
    /\ UNCHANGED << Formation, sideVars, pc, ret, rootCancelled, cancelled,
                    updates, fn, fileHashes, builds, treeCtx, watchVars,
                    dynamicServiceDiscovery, exits, okStages, lastBuild,
                    skipped >>

\* case <-rootCtx.Done(): cancel()
RootDone ==
    /\ pc = "select"
    /\ rootCancelled
    /\ cancelled' = cancelled \cup {c}
    /\ pc' = "wait"
    /\ UNCHANGED << Formation, sideVars, ret, rootCancelled, c, updates, run,
                    fn, fileHashes, ephemeralOnce, builds, treeSt, treeCtx,
                    child, watchVars, dynamicServiceDiscovery, exits,
                    okStages, lastBuild, ephStarts, skipped >>

\* a Start that does not wait for its goroutines
WgWaitDone_nowait == \A t \in Trees : treeSt[t] \in {"none", "spawned", "active", "ended"}

\* wg.Wait() can return: every goroutine added to wg has ended
WgWaitDone == \A t \in Trees : treeSt[t] \in {"none", "ended"}

\* wg.Wait(); return nil
Return ==
    /\ pc = "wait"
    /\ WgWaitDone
    /\ pc' = "returned"
    /\ ret' = "nil"
    /\ UNCHANGED << Formation, sideVars, rootCancelled, c, cancelled, updates,
                    run, fn, fileHashes, ephemeralOnce, builds, treeSt,
                    treeCtx, child, watchVars, dynamicServiceDiscovery, exits,
                    okStages, lastBuild, ephStarts, skipped >>

(***************************************************************************)
(* Supervision trees (oversight.New with OneForAll and NeverHalt) and the  *)
(* children they run through startProcess and command.                     *)
(***************************************************************************)
\* LOOP registered as a transient child
RestartPolicy_loopTransient(k) ==
    IF k[1] # Eph THEN "permanent"
    ELSE IF Mode(k) = Loop THEN "transient"
    ELSE IF Mode(k) = Temporary THEN "temporary"
    ELSE "transient"

\* TEMPORARY registered as a permanent child
RestartPolicy_tempPermanent(k) ==
    IF k[1] # Eph THEN "permanent"
    ELSE IF Mode(k) = Loop THEN "permanent"
    ELSE IF Mode(k) = Temporary THEN "permanent"
    ELSE "transient"

\* restart policy each child is registered with
RestartPolicy(k) ==
    IF k[1] # Eph THEN "permanent"
    ELSE IF Mode(k) = Loop THEN "permanent"
    ELSE IF Mode(k) = Temporary THEN "temporary"
    ELSE "transient"

\* oversight.Permanent(), oversight.Temporary(), oversight.Transient()
Restarts(policy, err) ==
    IF policy = "permanent" THEN TRUE
    ELSE IF policy = "transient" THEN err
    ELSE FALSE

\* the error the Start function of a child returns to its tree
StartReturn(k, ok) ==
    IF k[1] # Eph THEN (~ok /\ Mode(k) = OnFailure) ELSE FALSE

\* the tree restarts child k after its Start function returned with status ok
TreeRestarts(k, ok) ==
    ~TreeCtxDone(k[1]) /\ Restarts(RestartPolicy(k), StartReturn(k, ok))

\* go func() { defer wg.Done(); tree.Start(c) }(): the goroutine reads c
TreeBegin(t) ==
    /\ treeSt[t] = "spawned"
    /\ treeSt' = [treeSt EXCEPT ![t] = "active"]
    /\ treeCtx' = [treeCtx EXCEPT ![t] = c]
    /\ child' = [k \in Kids |->
                    IF k \in KidsOf(t) THEN [NoChild EXCEPT !.st = "idle"]
                    ELSE child[k]]
    /\ UNCHANGED << orchVars, sideVars, rootCancelled, updates, builds,
                    watchVars, dynamicServiceDiscovery, exits >>

\* a port that is the same for every instance of a descriptor
PortCount_shared(j, i) == (j - 1) * 100

\* portCount of instance i of the descriptor at (0-based) position j - 1
PortCount(j, i) == (j - 1) * 100 + i

\* the port and address of a child are advertised before waitFor
AdvertisePort(k) ==
    dynamicServiceDiscovery' =
        [key \in SdKeys |->
            IF key \in PortEntry(k[2], k[3], PortCount(k[2], k[3]))
            THEN Address(PortCount(k[2], k[3]))
            ELSE dynamicServiceDiscovery[key]]

\* startProcess of a descriptor with WaitFor: the address is advertised and
\* waitFor begins ("waiting for" is logged)
ChildWaitFor(k) ==
    /\ treeSt[k[1]] = "active"
    /\ child[k].st = "idle"
    /\ Processes[k[2]].WaitFor # ""
    /\ child' = [child EXCEPT ![k].st = "waiting"]
    /\ AdvertisePort(k)
    /\ UNCHANGED << orchVars, sideVars, rootCancelled, updates, builds,
                    treeSt, treeCtx, watchVars, exits >>

\* waitFor, case <-time.After: net.Dial succeeds and waitFor returns
\* ("starting" is logged)
WaitForDial(k) ==
    /\ child[k].st = "waiting"
    /\ listening
    /\ child' = [child EXCEPT ![k].st = "connected"]
    /\ UNCHANGED << orchVars, sideVars, rootCancelled, updates, builds,
                    treeSt, treeCtx, watchVars, dynamicServiceDiscovery,
                    exits >>

\* waitFor, case <-ctx.Done(): waitFor returns without a connection
\* ("starting" is logged)
WaitForCtxDone(k) ==
    /\ child[k].st = "waiting"
    /\ KidCtxDone(k)
    /\ child' = [child EXCEPT ![k].st = "abandoned"]
    /\ UNCHANGED << orchVars, sideVars, rootCancelled, updates, builds,
                    treeSt, treeCtx, watchVars, dynamicServiceDiscovery,
                    exits >>

\* the keys of r.dynamicServiceDiscovery as characters
KeyChars ==
    LET names == {normalizeByEnvVarRules(Processes[j].Name) : j \in ProcIdx}
        errors == {<< "E", "R", "R", "O", "R", "_" >> \o n : n \in names}
        ports == {discoveryEnvVar(Processes[x[1]].Name, x[2]) :
                     x \in LaunchedInstances}
    IN [key \in SdKeys |->
           CHOOSE seq \in names \cup errors \cup ports : Str(seq) = key]

\* the wait_for targets of the analysis
Targets ==
    { << "w", "e", "b" >>,
      << "W", "E", "B" >>,
      << "W", "E", "B", "_", "0", "_", "P", "O", "R", "T" >>,
      << "W" >>,
      << "B", "U", "I", "L", "D" >>,
      << "d", "b" >> }

\* resolveProcessTypeAddress: the results the range over the map can give;
\* the result of the first key found that has the target as prefix, the
\* target itself when there is none
resolveProcessTypeAddress(target, sd) ==
    LET found == {key \in SdKeys :
                     sd[key] # "absent" /\ HasPrefix(KeyChars[key], target)}
    IN IF found = {} THEN {Str(target)}
       ELSE {"localhost:" \o sd[key] : key \in found}

\* target = r.resolveProcessTypeAddress(target) in the loop of a waitFor
\* that a child of a running tree has called
Resolve(target) ==
    /\ \E t \in Trees : treeSt[t] = "active"
    /\ \E address \in resolveProcessTypeAddress(target,
                                                dynamicServiceDiscovery) :
          probe' = [fn |-> "resolveProcessTypeAddress", in |-> target,
                    out |-> address]
    /\ UNCHANGED << orchVars, staticServiceDiscovery, listening, logVars,
                    ticker, rootCancelled, updates, builds, treeSt, treeCtx,
                    child, watchVars, dynamicServiceDiscovery, exits >>

\* the target of wait_for begins to accept connections
TargetListens ==
    /\ ~listening
    /\ listening' = TRUE
    /\ UNCHANGED << orchVars, pureVars, staticServiceDiscovery, logVars,
                    rootCancelled, updates, builds, treeSt, treeCtx, child,
                    watchVars, dynamicServiceDiscovery, exits >>

\* a startProcess that does not call waitFor
ReachesRun_nowait(st, waitFor) == st \in {"idle", "connected", "abandoned"}

\* startProcess is at c.Run(): at once when WaitFor is empty, else after
\* waitFor returned
ReachesRun(st, waitFor) ==
    (st = "idle" /\ waitFor = "") \/ st \in {"connected", "abandoned"}

\* startProcess up to c.Run(): the address is advertised, then the command
\* starts unless its context is done
ChildLaunch(k) ==
    /\ treeSt[k[1]] = "active"
    /\ ReachesRun(child[k].st, Processes[k[2]].WaitFor)
    /\ LET portCount == PortCount(k[2], k[3])
       IN /\ child' = [child EXCEPT ![k] =
                    IF KidCtxDone(k)
                    THEN [@ EXCEPT !.st = IF TreeRestarts(k, FALSE)
                                          THEN "idle" ELSE "done",
                                   !.ok = FALSE, !.stop = FALSE]
                    ELSE [@ EXCEPT !.st = "running", !.sig = "", !.ok = TRUE,
                                   !.launches = @ + 1]]
          /\ dynamicServiceDiscovery' =
                [key \in SdKeys |->
                    IF key \in PortEntry(k[2], k[3], portCount)
                    THEN Address(portCount)
                    ELSE dynamicServiceDiscovery[key]]
    /\ stdio' = [x \in LogKids |->
                    IF x = k /\ ~KidCtxDone(k) THEN NoOutput ELSE stdio[x]]
    /\ UNCHANGED << orchVars, pureVars, staticServiceDiscovery, listening, logs,
                    logSubscribers, streams, received, forwarded,
                    rootCancelled,
                    updates, builds, treeSt, treeCtx, watchVars, exits >>

\* c.Cancel of command: the context of a running command is done
ChildSignal(k) ==
    /\ child[k].st = "running"
    /\ child[k].sig = ""
    /\ KidCtxDone(k)
    /\ child' = [child EXCEPT ![k].sig = OsSignal(Processes[k[2]])]
    /\ UNCHANGED << orchVars, sideVars, rootCancelled, updates, builds,
                    treeSt, treeCtx, watchVars, dynamicServiceDiscovery,
                    exits >>

\* what a scanner still delivers of the lines in the pipe of a command once
\* Wait of c.Run() has closed the pipe: the lines it had read, a prefix
ReadBeforeClose(pipe) == {SubSeq(pipe, 1, n) : n \in 0..Len(pipe)}

\* the command terminates, after a signal or on its own with status ok, c.Run()
\* closes the pipes of the command, and its tree applies the restart policy
\* and the one-for-all strategy
ChildExit(k, ok) ==
    /\ child[k].st = "running"
    /\ IF child[k].sig # ""
       THEN ~ok /\ UNCHANGED exits
       ELSE exits < MaxExits /\ exits' = exits + 1
    /\ LET restart == TreeRestarts(k, ok)
       IN child' = [x \in Kids |->
            IF x = k
            THEN IF restart
                 THEN [child[k] EXCEPT !.st = "idle", !.sig = "", !.stop = FALSE]
                 ELSE [child[k] EXCEPT !.st = "done", !.ok = ok, !.stop = FALSE]
            ELSE IF /\ x[1] = k[1] /\ restart /\ ~child[k].stop
                    /\ child[x].st = "running"
                 THEN [child[x] EXCEPT !.stop = TRUE]
                 ELSE child[x]]
    /\ IF k \in LogKids
       THEN \E rest \in ReadBeforeClose(stdio[k].pipe) :
                stdio' = [stdio EXCEPT ![k].pipe = rest]
       ELSE UNCHANGED stdio
    /\ UNCHANGED << orchVars, pureVars, staticServiceDiscovery, listening, logs,
                    logSubscribers, streams, received, forwarded,
                    rootCancelled,
                    updates, builds, treeSt, treeCtx, watchVars,
                    dynamicServiceDiscovery >>

\* tree.Start returns: its context is done and its children have ended
TreeEnd(t) ==
    /\ treeSt[t] = "active"
    /\ TreeCtxDone(t)
    /\ \A k \in KidsOf(t) : child[k].st = "done"
    /\ treeSt' = [treeSt EXCEPT ![t] = "ended"]
    /\ treeCtx' = [treeCtx EXCEPT ![t] = 0]
    /\ child' = [k \in Kids |->
                    IF k[1] = t /\ t # Eph THEN NoChild ELSE child[k]]
    /\ UNCHANGED << orchVars, sideVars, rootCancelled, updates, builds,
                    watchVars, dynamicServiceDiscovery, exits >>

(***************************************************************************)
(* Logs: the standard output of a command, prefixedPrinter, forwardLogs    *)
(* and the /logs handler.  The capacities of the channels are LogCap and   *)
(* SubCap (sseLogForwarderBufferSize in the program).  A message carries,  *)
(* besides Name and Line, the launch and the position of the line in the   *)
(* output of that launch (history).                                        *)
(***************************************************************************)
LogCap == 1
SubCap == 2
MaxSubs == 2

\* procName of startProcess
ProcName(k) == Str(Processes[k[2]].Name) \o "." \o ToString(k[3])

\* the command has written all its output
Completed(k) ==
    k \in LogKids => stdio[k].written = Len(Processes[k[2]].Output)

\* the command writes its next line to its standard output
ChildPrint(k) ==
    /\ k \in LogKids
    /\ child[k].st = "running"
    /\ stdio[k].written < Len(Processes[k[2]].Output)
    /\ LET pos == stdio[k].written + 1
           msg == [Name |-> ProcName(k), Line |-> Processes[k[2]].Output[pos],
                   launch |-> child[k].launches, pos |-> pos]
       IN stdio' = [stdio EXCEPT ![k] = [written |-> pos,
                                         pipe |-> Append(@.pipe, msg)]]
    /\ UNCHANGED << orchVars, pureVars, staticServiceDiscovery, listening, logs,
                    logSubscribers, streams, received, forwarded,
                    rootCancelled,
                    updates, builds, treeSt, treeCtx, child, watchVars,
                    dynamicServiceDiscovery, exits >>

\* prefixedPrinter: scanner.Scan() returns the next line and the goroutine
\* sends it on r.logs, waiting while the channel is full
Scan(k) ==
    /\ k \in LogKids
    /\ stdio[k].pipe # << >>
    /\ Len(logs) < LogCap
    /\ logs' = Append(logs, Head(stdio[k].pipe))
    /\ stdio' = [stdio EXCEPT ![k].pipe = Tail(@)]
    /\ UNCHANGED << orchVars, pureVars, staticServiceDiscovery, listening,
                    logSubscribers, streams, received, forwarded,
                    rootCancelled,
                    updates, builds, treeSt, treeCtx, child, watchVars,
                    dynamicServiceDiscovery, exits >>

\* a send that puts the message in front of the messages in the channel
Offer_front(stream, msg) ==
    IF Len(stream) < SubCap THEN << msg >> \o stream ELSE stream

\* select { case subscriber <- msg: default: }
Offer(stream, msg) ==
    IF Len(stream) < SubCap THEN Append(stream, msg) ELSE stream

\* a fan-out that gives up a message as soon as one subscriber is full
Deliver_unlessFull(subscribers, msg) ==
    IF \E s \in DOMAIN subscribers : Len(subscribers[s]) >= SubCap
    THEN subscribers
    ELSE [s \in DOMAIN subscribers |-> Offer(subscribers[s], msg)]

\* for _, subscriber := range r.logSubscribers
Deliver(subscribers, msg) ==
    [s \in DOMAIN subscribers |-> Offer(subscribers[s], msg)]

\* forwardLogs: one message of r.logs is offered to every subscriber
Forward ==
    /\ logs # << >>
    /\ logs' = Tail(logs)
    /\ logSubscribers' = Deliver(logSubscribers, Head(logs))
    /\ forwarded' = Append(forwarded, Head(logs))
    /\ UNCHANGED << orchVars, pureVars, staticServiceDiscovery, listening,
                    stdio, streams, received, rootCancelled, updates, builds,
                    treeSt, treeCtx, child, watchVars,
                    dynamicServiceDiscovery, exits >>

\* a request of /logs without filter and mode arrives while the server of
\* serveWeb runs: subscribeLogFwd ("from" is the number of messages
\* forwarded before, history); the requests are numbered as they arrive
Subscribe ==
    /\ pc \notin {"start", "returned"}
    /\ ~rootCancelled
    /\ Len(received) < MaxSubs
    /\ logSubscribers' = Append(logSubscribers, << >>)
    /\ streams' = Append(streams, Len(received) + 1)
    /\ received' = Append(received, [from |-> Len(forwarded),
                                      frames |-> << >>,
                                      state |-> "serving"])
    /\ UNCHANGED << orchVars, pureVars, staticServiceDiscovery, listening,
                    stdio, logs, forwarded, rootCancelled, updates, builds,
                    treeSt, treeCtx, child, watchVars,
                    dynamicServiceDiscovery, exits >>

\* the handlers that run the loop of /logs
Serving == {s \in DOMAIN received : received[s].state = "serving"}

\* the place in r.logSubscribers of the channel of request s
PlaceOf(s) == CHOOSE n \in DOMAIN streams : streams[n] = s

\* the /logs handler, case msg := <-stream: the frame is written
WriteFrame(s) ==
    /\ s \in Serving
    /\ logSubscribers[PlaceOf(s)] # << >>
    /\ received' =
          [received EXCEPT
              ![s].frames = Append(@, Head(logSubscribers[PlaceOf(s)]))]
    /\ logSubscribers' = [logSubscribers EXCEPT ![PlaceOf(s)] = Tail(@)]
    /\ UNCHANGED << orchVars, pureVars, staticServiceDiscovery, listening,
                    stdio, logs, streams, forwarded, rootCancelled, updates,
                    builds, treeSt, treeCtx, child, watchVars,
                    dynamicServiceDiscovery, exits >>

\* the ways the loop of the /logs handler ends
Returns == {"encode", "write", "done"}

\* the /logs handler reaches a return: json.Marshal or w.Write fails for the
\* message it has taken from its channel, or the context of the request is
\* done (the client has gone); the deferred unsubscribeLogFwd has yet to
\* take the lock
HandlerReturn(s, why) ==
    /\ s \in Serving
    /\ why \in Returns
    /\ why # "done" => logSubscribers[PlaceOf(s)] # << >>
    /\ logSubscribers' = IF why = "done" THEN logSubscribers
                         ELSE [logSubscribers EXCEPT ![PlaceOf(s)] = Tail(@)]
    /\ received' = [received EXCEPT ![s].state = "returning"]
    /\ UNCHANGED << orchVars, pureVars, staticServiceDiscovery, listening,
                    stdio, logs, streams, forwarded, rootCancelled, updates,
                    builds, treeSt, treeCtx, child, watchVars,
                    dynamicServiceDiscovery, exits >>

\* a removal that takes the first channel of the list, whoever made it
Deleted_first(list, stream) == {1} \cap DOMAIN list

\* the places slices.DeleteFunc removes: those that hold the channel
Deleted(list, stream) == {n \in DOMAIN list : list[n] = stream}

\* unsubscribeLogFwd, deferred by the /logs handler
Unsubscribe(s) ==
    /\ s \in DOMAIN received
    /\ received[s].state = "returning"
    /\ LET gone == Deleted(streams, s)
           kept == {n \in DOMAIN streams : n \notin gone}
           place(m) == CHOOSE n \in kept :
                          Cardinality({x \in kept : x <= n}) = m
       IN /\ streams' = [m \in 1..Cardinality(kept) |-> streams[place(m)]]
          /\ logSubscribers' =
                [m \in 1..Cardinality(kept) |-> logSubscribers[place(m)]]
    /\ received' = [received EXCEPT ![s].state = "returned"]
    /\ UNCHANGED << orchVars, pureVars, staticServiceDiscovery, listening,
                    stdio, logs, forwarded, rootCancelled, updates, builds,
                    treeSt, treeCtx, child, watchVars,
                    dynamicServiceDiscovery, exits >>

(***************************************************************************)
(* Specifications.                                                         *)
(***************************************************************************)
\* steps of the engine itself (goroutines of Start, trees, signalled commands)
Progress ==
    \/ \E webOk \in BOOLEAN : StartUp(webOk)
    \/ EmitInitial
    \/ \E f \in Files : Poll(f)
    \/ RecvUpdate
    \/ HashCheck
    \/ \E b \in BuildInstances : BuildSignal(b)
    \/ \E b \in BuildInstances : builds[b] = "signalled" /\ BuildExit(b, FALSE)
    \/ BuildsDone
    \/ RunStep
    \/ RootDone
    \/ Return
    \/ \E t \in Gens : TreeBegin(t)
    \/ \E k \in Kids : ChildLaunch(k)
    \/ \E k \in Kids : ChildSignal(k)
    \/ \E k \in Kids : child[k].sig # "" /\ ChildExit(k, FALSE)
    \/ \E t \in Trees : TreeEnd(t)

\* steps of the environment: the developer, the caller, the commands
Environment ==
    \/ \E f \in Files : Touch(f)
    \/ RootCancel
    \/ \E b \in BuildInstances, ok \in BOOLEAN :
          builds[b] = "running" /\ BuildExit(b, ok)
    \/ \E k \in Kids, ok \in BOOLEAN : child[k].sig = "" /\ ChildExit(k, ok)

Next == Progress \/ Environment

Spec == Init /\ [][Next]_vars

\* the configurations of the analysis of the name check
ConfigFormations == [ProcIdx -> 0..MaxCount]

ConfigInit == StartState(ConfigFormations, {{WatchedFile}}, {FALSE}, 0)

\* Start up to its loop
ConfigNext == \E webOk \in BOOLEAN : StartUp(webOk)

ConfigSpec == ConfigInit /\ [][ConfigNext]_vars

\* the analysis of the ports: a descriptor has no instance, one instance,
\* or more instances than the 100 ports between two descriptors
ManyInstances == 101

PortFormations == [ProcIdx -> {0, 1, ManyInstances}]

PortInit == StartState(PortFormations, {{WatchedFile}}, {FALSE}, 0)

PortSpec == PortInit /\ [][ConfigNext]_vars

\* the analysis of the watcher: one build step, the two files, either
\* strategy, one more modification

WatchInit == StartState(WatchFormations, {Files}, BOOLEAN, MaxTouches + 1)

\* the steps of a configuration without services
WatchNext ==
    \/ \E webOk \in BOOLEAN : StartUp(webOk)
    \/ EmitInitial
    \/ \E f \in Files : Poll(f)
    \/ RecvUpdate
    \/ HashCheck
    \/ \E b \in BuildInstances : BuildSignal(b)
    \/ \E b \in BuildInstances, ok \in BOOLEAN : BuildExit(b, ok)
    \/ BuildsDone
    \/ RunStep
    \/ RootDone
    \/ Return
    \/ \E t \in Gens : TreeBegin(t)
    \/ \E t \in Trees : TreeEnd(t)
    \/ \E f \in Files : Touch(f)
    \/ RootCancel

WatchSpec == WatchInit /\ [][WatchNext]_vars

\* the analysis of wait_for: one build step and the task that waits, no
\* modification of a file
WaitInit == StartState(WaitFormations, {{WatchedFile}}, {FALSE}, 0)

WaitNext ==
    \/ \E webOk \in BOOLEAN : StartUp(webOk)
    \/ EmitInitial
    \/ \E f \in Files : Poll(f)
    \/ RecvUpdate
    \/ HashCheck
    \/ \E b \in BuildInstances : BuildSignal(b)
    \/ \E b \in BuildInstances, ok \in BOOLEAN : BuildExit(b, ok)
    \/ BuildsDone
    \/ RunStep
    \/ RootDone
    \/ Return
    \/ \E t \in Gens : TreeBegin(t)
    \/ \E t \in Trees : TreeEnd(t)
    \/ \E k \in Kids : ChildWaitFor(k)
    \/ \E k \in Kids : WaitForDial(k)
    \/ \E k \in Kids : WaitForCtxDone(k)
    \/ \E k \in Kids : ChildLaunch(k)
    \/ \E k \in Kids : ChildSignal(k)
    \/ \E k \in Kids, ok \in BOOLEAN : ChildExit(k, ok)
    \/ TargetListens
    \/ RootCancel

WaitSpec == WaitInit /\ [][WaitNext]_vars

\* the analysis of the last event: one build step, one file that is
\* modified one more time, and goroutines of the engine that are scheduled
LastEventInit ==
    StartState(WatchFormations, {{WatchedFile}}, {FALSE}, MaxTouches + 1)

LastEventSpec ==
    LastEventInit /\ [][WatchNext]_vars /\ WF_vars(Progress)

\* the analysis of match: the function applied to every pattern and path
MatchInit == StartState(WatchFormations, {{WatchedFile}}, {FALSE}, 0)

MatchNext == \E p \in MatchPatterns, path \in MatchPaths : Match(p, path)

MatchSpec == MatchInit /\ [][MatchNext]_vars

\* the analysis of ParseFormation: the function applied to every line
FormationInit == StartState(WatchFormations, {{WatchedFile}}, {FALSE}, 0)

FormationNext == \E parts \in FormationLines : ParseLine(parts)

FormationSpec == FormationInit /\ [][FormationNext]_vars

\* the analysis of the schedule of the polls of git status: a git work
\* directory with one file, modified MaxTouches + 1 times
TickInit ==
    StartState(WatchFormations, {{WatchedFile}}, {TRUE}, MaxTouches + 1)

TickNext ==
    \/ \E webOk \in BOOLEAN : StartUp(webOk)
    \/ EmitInitial
    \/ RecvUpdate
    \/ \E f \in Files : Touch(f)
    \/ MonitorGitDir
    \/ Range
    \/ BackoffTick
    \/ GitStatus
    \/ RootCancel

TickSpec == TickInit /\ [][TickNext]_vars

\* a waitFor resolves its target at any moment of a run of the formations
\* of the resolution
ResolveInit == StartState(ResolveFormations, {{WatchedFile}}, {FALSE}, 0)

ResolveNext ==
    \/ \E webOk \in BOOLEAN : StartUp(webOk)
    \/ EmitInitial
    \/ \E f \in Files : Poll(f)
    \/ RecvUpdate
    \/ HashCheck
    \/ \E b \in BuildInstances, ok \in BOOLEAN :
          builds[b] = "running" /\ BuildExit(b, ok)
    \/ BuildsDone
    \/ RunStep
    \/ \E t \in Gens : TreeBegin(t)
    \/ \E k \in Kids : ChildLaunch(k)
    \/ \E k \in Kids, ok \in BOOLEAN :
          child[k].sig = "" /\ ChildExit(k, ok)
    \/ \E target \in Targets : Resolve(target)

ResolveSpec == ResolveInit /\ [][ResolveNext]_vars

\* the analysis of the logs: commands that write all their output before
\* they end, no modification of a file
LogInit == StartState(LogFormations, {{WatchedFile}}, {FALSE}, 0)

LogNext ==
    \/ \E webOk \in BOOLEAN : StartUp(webOk)
    \/ EmitInitial
    \/ \E f \in Files : Poll(f)
    \/ RecvUpdate
    \/ HashCheck
    \/ \E b \in BuildInstances : BuildSignal(b)
    \/ \E b \in BuildInstances, ok \in BOOLEAN : BuildExit(b, ok)
    \/ BuildsDone
    \/ RunStep
    \/ RootDone
    \/ Return
    \/ \E t \in Gens : TreeBegin(t)
    \/ \E t \in Trees : TreeEnd(t)
    \/ \E k \in Kids : ChildLaunch(k)
    \/ \E k \in Kids : ChildPrint(k)
    \/ \E k \in Kids : ChildSignal(k)
    \/ \E k \in Kids, ok \in BOOLEAN :
          (child[k].sig # "" \/ Completed(k)) /\ ChildExit(k, ok)
    \/ \E k \in Kids : Scan(k)
    \/ Forward
    \/ Subscribe
    \/ \E s \in 1..MaxSubs : WriteFrame(s)
    \/ RootCancel

LogSpec == LogInit /\ [][LogNext]_vars

\* the analysis of the subscribers of the logs: the /logs handlers come
\* and go while a service prints
SubscriberInit ==
    StartState(SubscriberFormations, {{WatchedFile}}, {FALSE}, 0)

SubscriberNext ==
    \/ \E webOk \in BOOLEAN : StartUp(webOk)
    \/ EmitInitial
    \/ RecvUpdate
    \/ HashCheck
    \/ \E b \in BuildInstances, ok \in BOOLEAN :
          builds[b] = "running" /\ BuildExit(b, ok)
    \/ BuildsDone
    \/ RunStep
    \/ \E t \in Gens : TreeBegin(t)
    \/ \E k \in Kids : ChildLaunch(k)
    \/ \E k \in Kids : ChildPrint(k)
    \/ \E k \in Kids, ok \in BOOLEAN :
          (child[k].sig = "" /\ Completed(k)) /\ ChildExit(k, ok)
    \/ \E k \in Kids : Scan(k)
    \/ Forward
    \/ Subscribe
    \/ \E s \in 1..MaxSubs : WriteFrame(s)
    \/ \E s \in 1..MaxSubs, why \in Returns : HandlerReturn(s, why)
    \/ \E s \in 1..MaxSubs : Unsubscribe(s)

SubscriberSpec == SubscriberInit /\ [][SubscriberNext]_vars

\* the analysis of the build stage: a configuration without services and
\* with two build steps
StageInit == StartState(StageFormations, {{WatchedFile}}, {FALSE}, MaxTouches)

StageSpec == StageInit /\ [][WatchNext]_vars


FairInit == StartState(FairFormations, {{WatchedFile}}, {FALSE}, MaxTouches)

\* the goroutines of the engine are scheduled, and a signalled command ends
FairSpec == FairInit /\ [][Next]_vars /\ WF_vars(Progress)

TypeOK ==
    /\ pc \in {"start", "select", "hash", "building", "wait", "returned"}
    /\ c \in 0..MaxGen
    /\ Len(updates) <= 1
    /\ Len(run) <= 1

(***************************************************************************)
(* Properties.                                                             *)
(***************************************************************************)
GenKids == {k \in Kids : k[1] \in Gens}
EphKids == {k \in Kids : k[1] = Eph}
LoopKids == {k \in EphKids : Mode(k) = Loop}
TempKids == {k \in EphKids : Mode(k) = Temporary}
FailKids == {k \in EphKids : Mode(k) = OnFailure}

\* the step sends on the channel run
SendsRun == run' # run /\ run' # << >>

\* the step starts a tree
StartsTree == \E t \in Trees : treeSt[t] = "none" /\ treeSt'[t] # "none"

\* C1: a request for a new generation is sent only by a build stage whose
\* build processes have all finished and all succeeded, a tree (permanent or
\* ephemeral) is started only from such a request, and as long as no build
\* stage has succeeded no non-build process is started.
C1_TreesOnlyAfterSuccessfulBuild ==
    /\ [][ /\ SendsRun =>
                /\ pc = "building"
                /\ \A b \in BuildInstances : builds[b] = "done"
           /\ StartsTree => (run # << >> /\ okStages >= 1) ]_vars
    /\ [](okStages = 0 =>
            /\ \A t \in Trees : treeSt[t] = "none"
            /\ \A k \in Kids : child[k].st = "absent")

\* a generation child runs in a configuration that has a build process
C1_Witness ==
    /\ Formation[1] = 1
    /\ \E k \in GenKids : child[k].st = "running"

\* C2: the step that ends a build stage in which a build failed cancels no
\* context, requests no generation and leaves every tree and child as it was.
C2_FailedBuildLeavesGeneration ==
    [][ ( /\ pc = "building"
          /\ pc' = "select"
          /\ \E b \in BuildInstances : builds[b] = "errored" )
        => /\ cancelled' = cancelled
           /\ run' = run
           /\ c' = c
           /\ child' = child
           /\ treeSt' = treeSt
           /\ treeCtx' = treeCtx ]_vars

\* a failed rebuild was handled and the child of the generation still runs,
\* unsignalled, under a context that is not cancelled
C2_Witness ==
    /\ lastBuild = "failed"
    /\ pc = "select"
    /\ ~rootCancelled
    /\ \E k \in GenKids :
          /\ child[k].st = "running"
          /\ child[k].sig = ""
          /\ treeCtx[k[1]] \notin cancelled

\* C3: once a child of a generation has been launched, every child of an
\* earlier generation that still runs has been sent its signal.
C3_SignalledBeforeNewGeneration ==
    \A k \in GenKids, x \in GenKids :
        ( /\ k[1] < x[1]
          /\ child[x].launches > 0
          /\ child[k].st = "running" )
        => child[k].sig # ""

\* C4: while a child of a generation runs, the child with the same instance
\* name of an earlier generation does not run.
C4_NoChildOutlivesGeneration ==
    \A k \in GenKids, x \in GenKids :
        ( /\ k[1] < x[1]
          /\ k[2] = x[2] /\ k[3] = x[3]
          /\ child[x].st = "running" )
        => child[k].st # "running"

\* C5: a child of the ephemeral tree is signalled only after the root
\* context is cancelled (or when its own tree restarts its siblings), and the
\* steps that cancel a generation context or start a generation leave the
\* children of a started ephemeral tree as they are.
C5_RebuildLeavesEphemeral ==
    /\ [](\A k \in EphKids :
            (child[k].st = "running" /\ child[k].sig # "")
               => (rootCancelled \/ child[k].stop))
    /\ [][ ((cancelled' # cancelled \/ c' # c) /\ ephemeralOnce)
           => \A k \in EphKids : child'[k] = child[k] ]_vars

\* after a rebuild (second generation) an ephemeral child launched once is
\* still running, unsignalled
C5_Witness ==
    /\ c >= 2
    /\ 1 \in cancelled
    /\ ~rootCancelled
    /\ \E k \in EphKids :
          /\ child[k].st = "running"
          /\ child[k].launches = 1
          /\ child[k].sig = ""

C7_OnFailureRestarted ==
    \A k \in FailKids :
        ( /\ child[k].st = "done"
          /\ child[k].sig = ""
          /\ ~rootCancelled )
        => child[k].ok

\* C8: a LOOP child is left ended only when the root context is cancelled,
\* whatever its exit status; until then a LOOP child whose command ended is
\* launched again; a run step after the first one does not touch it.
C8_LoopRestarts ==
    /\ [](\A k \in LoopKids : child[k].st = "done" => rootCancelled)
    /\ \A k \in LoopKids :
          (child[k].st = "idle" /\ ~rootCancelled)
             ~> (child[k].st = "running" \/ rootCancelled)
    /\ [][ (c' # c /\ ephemeralOnce)
           => \A k \in LoopKids : child'[k] = child[k] ]_vars

\* a LOOP child runs for the second time, after a rebuild
C8_Witness ==
    /\ c >= 2
    /\ \E k \in LoopKids : child[k].st = "running" /\ child[k].launches >= 2

C10_EphemeralOnce ==
    /\ ephStarts <= 1
    /\ (ephStarts = 1) = (c >= 1)
    /\ (treeSt[Eph] # "none") = (c >= 1)
    /\ (ephStarts >= 1 => okStages >= 1)

\* a second generation was started and the ephemeral tree was started once
C10_Witness ==
    /\ c >= 2
    /\ ephStarts = 1
    /\ treeSt[Eph] = "active"

ErrNonUniqueProcessTypeName == "ErrNonUniqueProcessTypeName"

\* the process instances of the configuration: index 0 .. formation-1 of
\* every descriptor
Instances == {x \in ProcIdx \X (0..(MaxCount - 1)) : x[2] < Formation[x[1]]}

\* normalized name.index of an instance
InstanceName(x) ==
    normalizeByEnvVarRules(DottedName(Processes[x[1]].Name, x[2]))

\* two instances of the configuration have the same normalized name
InstancesCollide ==
    \E x \in Instances, y \in Instances :
        x # y /\ InstanceName(x) = InstanceName(y)

\* nothing was watched, built or launched
NothingLaunched ==
    /\ c = 0
    /\ okStages = 0
    /\ lastBuild = "none"
    /\ builds = NoBuilds
    /\ ~initialSent
    /\ \A p \in Paths : emitted[p] = 0
    /\ \A t \in Trees : treeSt[t] = "none"
    /\ \A k \in Kids : child[k].st = "absent"
    /\ \A key \in SdKeys : dynamicServiceDiscovery[key] = "absent"

\* C11: once Start is past its check of the names, it has returned
\* ErrNonUniqueProcessTypeName if and only if two process instances of the
\* configuration have the same normalized name, and then nothing is launched.
C11_DuplicateIffInstancesCollide ==
    pc # "start" =>
        /\ (ret = ErrNonUniqueProcessTypeName) <=> InstancesCollide
        /\ (ret = ErrNonUniqueProcessTypeName) => NothingLaunched

\* C12: a non-nil error is returned only by the start-up of Start, before
\* anything is watched, built or launched; once the loop is entered the only
\* return is nil, after the cancellation of the root context, and no build
\* failure and no child exit ends Start.
C12_OnlyConfigurationErrors ==
    /\ [](ret \notin {"none", "nil"} =>
            /\ pc = "returned"
            /\ ret \in {ErrNonUniqueProcessTypeName,
                        "cannot serve discovery interface"}
            /\ NothingLaunched)
    /\ [][ (pc' = "returned" /\ pc # "returned") =>
              \/ pc = "start" /\ ret' \notin {"none", "nil"}
              \/ pc = "wait" /\ rootCancelled /\ ret' = "nil" ]_vars
    /\ [][ (pc # "start" /\ ret' # ret) =>
              (pc = "wait" /\ rootCancelled /\ ret' = "nil") ]_vars

\* a build stage failed and a child command ended unsuccessfully, and Start
\* is still in its loop with nothing returned
C12_Witness ==
    /\ pc = "select"
    /\ ret = "none"
    /\ ~rootCancelled
    /\ lastBuild = "failed"
    /\ \E k \in Kids : child[k].st = "done" /\ ~child[k].ok

BuildKeys == {StatusKey[j] : j \in {x \in ProcIdx : IsBuild(x)}}

\* runBuilds is not running, or its wgBuild.Wait() can return
BuildsReturned == pc # "building" \/ BuildsFinished

\* C14: whenever runBuilds has returned, every BUILD_* entry of
\* service_state is 'done' or 'errored' (or was never written) and none is
\* 'building', also when the context of the builds was cancelled.
C14_NoBuildLeftBuilding ==
    BuildsReturned =>
        \A key \in BuildKeys :
            dynamicServiceDiscovery[key] \in {"absent", "done", "errored"}

\* a build stage has ended under a cancelled context with a failed build,
\* and the entry of that build is 'errored'
C14_Witness ==
    /\ pc = "building"
    /\ BuildsFinished
    /\ CtxDone(c)
    /\ \E b \in BuildInstances :
          /\ builds[b] = "errored"
          /\ dynamicServiceDiscovery[StatusKey[b[1]]] = "errored"

\* C15: when runBuilds returns, the status entry of a build descriptor is
\* 'errored' and its ERROR_ entry holds the output if one of its processes
\* failed, and the status entry is 'done' and there is no ERROR_ entry if
\* all its processes succeeded, for any number of instances.
C15_BuildStatusMatchesOutcome ==
    (pc = "building" /\ BuildsFinished) =>
        \A j \in ProcIdx : (IsBuild(j) /\ Formation[j] > 0) =>
            IF \E b \in BuildInstances : b[1] = j /\ builds[b] = "errored"
            THEN /\ dynamicServiceDiscovery[StatusKey[j]] = "errored"
                 /\ dynamicServiceDiscovery[ErrorKey[j]] = "output"
            ELSE /\ dynamicServiceDiscovery[StatusKey[j]] = "done"
                 /\ dynamicServiceDiscovery[ErrorKey[j]] = "absent"

\* C16: the step that handles an event for a path whose content hash equals
\* the hash recorded for that path, while another event is queued, starts no
\* build stage, cancels no context, requests and starts no generation and
\* leaves the recorded hashes and service_state as they were.
C16_UnchangedHashSkips ==
    [][ ( /\ pc = "hash"
          /\ pc' # "hash"
          /\ fileHashes[fn] # "none"
          /\ calcFileHash(fn) = fileHashes[fn]
          /\ Len(updates) > 0 )
        => /\ pc' = "select"
           /\ builds' = builds
           /\ cancelled' = cancelled
           /\ run' = run
           /\ c' = c
           /\ treeSt' = treeSt
           /\ fileHashes' = fileHashes
           /\ dynamicServiceDiscovery' = dynamicServiceDiscovery
           /\ okStages' = okStages
           /\ lastBuild' = lastBuild ]_vars

\* an event for the watched file was skipped after a build for that file,
\* and the generation of that build is still the current, uncancelled one
C16_Witness ==
    /\ skipped >= 1
    /\ pc = "select"
    /\ fileHashes[WatchedFile] = content[WatchedFile]
    /\ emitted[WatchedFile] >= 2
    /\ c >= 1
    /\ c \notin cancelled
    /\ ~rootCancelled

\* the files that match a negative observable: a pattern written with '!'
NegativeFiles ==
    {f \in Files :
        \E n \in DOMAIN Observables :
            /\ Observables[n] # << >>
            /\ Head(Observables[n]) = "!"
            /\ match(Tail(Observables[n]), FileName[f])}

\* C17: the watcher never emits the path of a file that matches a negative
\* observable, so no event for such a path reaches Start.
C17_NegativeNeverEmitted ==
    \A f \in NegativeFiles : emitted[f] = 0 /\ fn # f

\* C18: once the watcher has seen the current modification time of a tracked
\* file, it has emitted the path of that file once for each modification
\* made since Start began to watch.
C18_OneEmissionPerChange ==
    \A f \in Tracked \cap workdir :
        memo[f] = mtime[f] => emitted[f] = mtime[f]

\* no file is ever modified and the root context is never cancelled
NoChange == (\A f \in Files : mtime[f] = 0) /\ ~rootCancelled

\* C19: the empty path is emitted at most once, and once Start watches it
\* is emitted provided the channel is empty again and again (the send
\* blocks while the channel is full); when no file is modified and the root
\* context is not cancelled, a build stage is run for it and, if that stage
\* succeeds, the first generation and the ephemeral tree are started.
C19_InitialEmptyPath ==
    /\ [](emitted[""] <= 1)
    /\ []<>(updates = << >>) => (WatcherStarted ~> (emitted[""] = 1))
    /\ []NoChange =>
          (WatcherStarted ~> ((pc = "building" /\ fn = "") \/ lastBuild # "none"))
    /\ []NoChange =>
          ((lastBuild = "ok") ~>
              (c = 1 /\ treeSt[Eph] # "none" /\ treeSt[1] \in {"active", "ended"}))

\* no file was modified, the one event was the empty path, its build stage
\* succeeded and a child of the first generation runs beside the ephemeral
\* tree
C19_Witness ==
    /\ NoChange
    /\ emitted[""] = 1
    /\ okStages = 1
    /\ c = 1
    /\ treeSt[Eph] = "active"
    /\ \E k \in GenKids : k[1] = 1 /\ child[k].st = "running"

PortInstances ==
    {x \in ProcIdx \X (0..(ManyInstances - 1)) :
        ~IsBuild(x[1]) /\ x[2] < Formation[x[1]]}

\* C21: once Start runs its loop, no two distinct instances of the non-build
\* descriptors have the same port number, whatever the formation counts.
C21_ExclusivePorts ==
    pc = "select" =>
        Cardinality({Port(PortCount(x[1], x[2])) : x \in PortInstances})
            = Cardinality(PortInstances)

\* C22: every entry NAME_i_PORT of the static discovery environment holds
\* localhost:(BasePort + j*100 + i) for the instance i of the descriptor at
\* 0-based position j, the address startProcess advertises for that
\* instance, and every instance of a service has its entry.
C22_StaticDiscoveryAddress ==
    pc = "select" =>
        \A x \in Instances :
            InPermanent(x[1]) =>
                /\ \E n \in DOMAIN staticServiceDiscovery :
                      staticServiceDiscovery[n][1] = PortKey[x[1], x[2]]
                /\ \A n \in DOMAIN staticServiceDiscovery :
                      staticServiceDiscovery[n][1] = PortKey[x[1], x[2]] =>
                          staticServiceDiscovery[n][2]
                              = Address(PortCount(x[1], x[2]))

\* the build goroutine was started in the current stage
BuildStarted(b) == builds[b] # "none"

\* C27: within a build stage, a process of a build step declared later has
\* not started as long as a process of a build step declared before it has
\* not finished.
C27_BuildsInDeclarationOrder ==
    \A b1 \in BuildInstances, b2 \in BuildInstances :
        (b1[1] < b2[1] /\ BuildStarted(b2)) =>
            builds[b1] \in {"done", "errored"}

\* the step ends a build stage with result true
StageSucceeds == pc = "building" /\ okStages' = okStages + 1

\* C30: the step that ends a successful build stage while an event is
\* queued cancels no context, sends no request on run, starts no tree and
\* leaves the generation as it is; the loop is back at its select with the
\* event still queued.
C30_PendingEventCoalesces ==
    [][ (StageSucceeds /\ Len(updates) > 0) =>
            /\ cancelled' = cancelled
            /\ run' = run
            /\ c' = c
            /\ treeSt' = treeSt
            /\ child' = child
            /\ pc' = "select"
            /\ updates' = updates ]_vars

\* the first build stage has succeeded while the path of the watched file
\* was queued: no request is on run, the context of Start is not cancelled
\* and no tree exists
C30_Witness ==
    /\ pc = "select"
    /\ okStages = 1
    /\ lastBuild = "ok"
    /\ updates = << WatchedFile >>
    /\ run = << >>
    /\ c = 0
    /\ cancelled = {}
    /\ \A t \in Trees : treeSt[t] = "none"

\* the previous generation was cancelled and the tree of the new one is
\* requested but not started
BetweenGenerations ==
    c >= 1 /\ c \in cancelled /\ run # << >> /\ ~rootCancelled

\* C28: when the orchestrator has taken an event between the cancellation
\* of a generation and the start of the next one, the build processes of
\* that event run: their context is not a cancelled one, which would fail
\* them at once and lose the event.
C28_EventBetweenGenerationsBuilt ==
    (BetweenGenerations /\ pc = "building" /\ BuildInstances # {}) =>
        /\ ~CtxDone(c)
        /\ \A b \in BuildInstances : builds[b] \in {"running", "done"}

\* C29: a file whose changed modification time the watcher detected while
\* the channel was full, so that its path was not sent, still differs from
\* the modification time the watcher has stored: the next poll detects the
\* change again.
C29_DroppedChangeDetectedAgain ==
    \A f \in dropped : memo[f] # mtime[f]

\* the children of a descriptor with wait_for
WaitKids == {k \in Kids : Processes[k[2]].WaitFor # ""}

\* C23: a child with wait_for is launched only after waitFor returned from a
\* successful connection (waiting, then connected, then the command), a
\* connection succeeds only while the target listens, and a child whose
\* context is done when waitFor returns is not launched.
C23_WaitForBeforeLaunch ==
    [][ \A k \in WaitKids :
          /\ child'[k].launches > child[k].launches
                => (child[k].st = "connected" /\ listening /\ ~KidCtxDone(k))
          /\ (child'[k].st = "connected" /\ child[k].st # "connected")
                => (child[k].st = "waiting" /\ listening)
          /\ (child'[k].st = "running" /\ child[k].st # "running")
                => child'[k].launches = child[k].launches + 1
          /\ child[k].st = "abandoned"
                => child'[k].launches = child[k].launches ]_vars

\* one instance ran after its connection succeeded, the other was still
\* waiting when its context was cancelled and ended without a launch
C23_Witness ==
    /\ listening
    /\ rootCancelled
    /\ child[<<Eph, 7, 0>>].launches = 1
    /\ child[<<Eph, 7, 1>>].st = "done"
    /\ child[<<Eph, 7, 1>>].launches = 0

\* what subscriber s has been given: the frames written and the messages
\* still in its channel
Given(s) == received[s].frames \o logSubscribers[s]

\* C24: forwardLogs can always take the next message of r.logs whatever the
\* state of the subscribers, and the step that takes it appends it to the
\* channel of every subscriber with room, leaves a full channel as it is
\* and removes the message from r.logs.
C24_FanOutNeverBlocks ==
    /\ [](logs # << >> => ENABLED Forward)
    /\ [][ forwarded' # forwarded =>
             /\ logs' = Tail(logs)
             /\ forwarded' = Append(forwarded, Head(logs))
             /\ DOMAIN logSubscribers' = DOMAIN logSubscribers
             /\ \A s \in DOMAIN logSubscribers :
                   logSubscribers'[s] =
                       IF Len(logSubscribers[s]) < SubCap
                       THEN Append(logSubscribers[s], Head(logs))
                       ELSE logSubscribers[s] ]_vars

\* a message was dropped for the first subscriber, whose channel was full,
\* and written by the handler of the second, both subscribed before any
\* message was forwarded, and r.logs is empty again
C24_Witness ==
    /\ Len(logSubscribers) = 2
    /\ received[1].from = 0
    /\ received[2].from = 0
    /\ Len(logSubscribers[1]) = SubCap
    /\ logs = << >>
    /\ \E n \in DOMAIN received[2].frames :
          \A i \in DOMAIN Given(1) : Given(1)[i] # received[2].frames[n]

\* C25: what a subscriber is given of one stream (one launch of one child)
\* are lines of that stream at strictly increasing positions: a
\* subsequence in the original order, without duplicate.
C25_StreamOrderPreserved ==
    \A s \in DOMAIN logSubscribers :
        /\ \A i \in DOMAIN Given(s) :
              \E k \in LogKids :
                  /\ Given(s)[i].Name = ProcName(k)
                  /\ Given(s)[i].pos \in DOMAIN Processes[k[2]].Output
                  /\ Given(s)[i].Line =
                        Processes[k[2]].Output[Given(s)[i].pos]
        /\ \A i, j \in DOMAIN Given(s) :
              (/\ i < j
               /\ Given(s)[i].Name = Given(s)[j].Name
               /\ Given(s)[i].launch = Given(s)[j].launch)
                 => Given(s)[i].pos < Given(s)[j].pos

\* the handler of a subscriber that was connected before any message was
\* forwarded wrote the first and the second line of a stream of three
\* lines, in this order, and the third line was dropped
C25_Witness ==
    \E s \in DOMAIN received :
        /\ received[s].from = 0
        /\ Len(forwarded) = 3
        /\ logSubscribers[s] = << >>
        /\ Len(received[s].frames) = 2
        /\ received[s].frames[1].Line = "one"
        /\ received[s].frames[2].Line = "two"

\* the frames with name p.0 and line hello that subscriber s has received
HelloFrames(s) ==
    {i \in DOMAIN received[s].frames :
        /\ received[s].frames[i].Name = "p.0"
        /\ received[s].frames[i].Line = "hello"}

\* the command of p.0 has ended at least once and every line that was
\* written has reached its end: nothing is in a pipe, in r.logs or in the
\* channel of subscriber s
Delivered(s) ==
    /\ exits >= 1
    /\ \A k \in LogKids : stdio[k].pipe = << >>
    /\ \A k \in LogKids : child[k].st = "running" => Completed(k)
    /\ logs = << >>
    /\ logSubscribers[s] = << >>

\* C26: with p as the only process besides the build step, a subscriber
\* that is connected before any message is forwarded never has more than
\* one frame with name p.0 and line hello in the first generation, and has
\* exactly one once the output of p.0 is delivered.
C26_ExactlyOneHelloFrame ==
    \A s \in DOMAIN received :
        (/\ Formation = <<1, 0, 0, 0, 0, 0, 0, 1>>
         /\ received[s].from = 0
         /\ c = 1)
          => /\ Cardinality(HelloFrames(s)) <= 1
             /\ Delivered(s) => Cardinality(HelloFrames(s)) = 1

\* a change event is put on the channel of the watcher
EventArrives == Len(updates') > Len(updates)

\* C31: a build stage begins only in the updates case of the loop and with
\* no build goroutine of an earlier stage left, it ends only when all its
\* goroutines have ended, and an event that arrives while it is in progress
\* changes neither its builds nor the generation context and starts nothing.
C31_BuildStagesSerial ==
    [][ /\ (pc' = "building" /\ pc # "building")
            => (pc = "hash" /\ builds = NoBuilds)
        /\ (pc = "building" /\ pc' # "building")
            => \A b \in BuildInstances : builds[b] \in {"done", "errored"}
        /\ (pc = "building" /\ EventArrives)
            => /\ pc' = "building"
               /\ builds' = builds
               /\ cancelled' = cancelled
               /\ c' = c
               /\ run' = run ]_vars

\* an event arrived while a build of the stage in progress is running under
\* a context that is not cancelled
C31_Witness ==
    /\ pc = "building"
    /\ updates # << >>
    /\ ~CtxDone(c)
    /\ \E b \in BuildInstances : builds[b] = "running"

\* C32: while a build stage is in progress and the root context is not
\* cancelled, the context runBuilds was called with is not cancelled.
C32_BuildContextLive ==
    (pc = "building" /\ ~rootCancelled) => c \notin cancelled

\* C33: a permanent tree that runs does so under the context of the
\* generation whose run step built it, so that no two trees run under the
\* same generation context.
C33_TreeUnderOwnGeneration ==
    /\ \A t \in Gens : treeSt[t] = "active" => treeCtx[t] = t
    /\ \A t1, t2 \in Gens :
          (treeSt[t1] = "active" /\ treeSt[t2] = "active" /\ t1 # t2)
             => treeCtx[t1] # treeCtx[t2]

\* the loop is idle and the generation it holds was started after the last
\* cancel() of a successful build stage
LastBuildRuns ==
    /\ pc = "select"
    /\ updates = << >>
    /\ run = << >>
    /\ lastBuild = "ok"
    /\ c >= 1
    /\ c \notin cancelled
    /\ treeSt[c] # "none"

BuildStatusKey(j) == "BUILD_" \o StatusKey[j]

\* C38: once an instance of build-a has succeeded in the build stage in
\* progress, service_state holds the key BUILD_BUILD_A with value done.
C38_BuildStatusKeyDone ==
    (pc = "building" /\ \E b \in BuildInstances :
                            b[1] = 1 /\ builds[b] = "done")
       => /\ BuildStatusKey(1) = "BUILD_BUILD_A"
          /\ BuildStatusKey(1) \in SdKeys
          /\ dynamicServiceDiscovery[BuildStatusKey(1)] = "done"

\* the advertised instances of the process type that target names, in the
\* letters of the descriptor or in those of its normalized name
NamedInstances(target) ==
    {x \in LaunchedInstances :
        /\ normalizeByEnvVarRules(target) =
              normalizeByEnvVarRules(Processes[x[1]].Name)
        /\ dynamicServiceDiscovery[PortKey[x[1], x[2]]] # "absent"}

\* C35: the address resolved for a target that names a process type with
\* an advertised instance is the advertised host:port of such an instance,
\* and a target of which no key of service_state is an extension is
\* returned unchanged.
C35_ResolvesToAdvertisedAddress ==
    probe.fn = "resolveProcessTypeAddress" =>
        /\ NamedInstances(probe.in) # {}
              => \E x \in NamedInstances(probe.in) :
                    probe.out = dynamicServiceDiscovery[PortKey[x[1], x[2]]]
        /\ (\A key \in SdKeys :
               dynamicServiceDiscovery[key] # "absent"
                  => ~HasPrefix(KeyChars[key], probe.in))
              => probe.out = Str(probe.in)

\* C36: the delay that follows a poll is base + k*step capped at the
\* maximum, 50 ms + k*250 ms and at most 5 s, where k is the number of polls
\* since the last event the watcher emitted: the delay that follows the
\* first poll after an emitted event is the base delay.
C36_DelayCountsPollsSinceEmit ==
    ticker.sent =>
        ticker.d = IF 50 + ticker.k * 250 > 5000 THEN 5000
                   ELSE 50 + ticker.k * 250

\* the segments of a pattern directory: its non-empty parts between "**",
\* cleaned
Segments(pdir) ==
    LET parts == Split(pdir, << "*", "*" >>)
        filled == SelectSeq(parts, LAMBDA x : x # << >>)
    IN [n \in DOMAIN filled |-> Clean(filled[n])]

\* the segments occur in dir one after the other, from position from on
RECURSIVE OccurInOrder(_, _, _)
OccurInOrder(segs, dir, from) ==
    IF segs = << >> THEN TRUE
    ELSE \E i \in from..(Len(dir) - Len(Head(segs)) + 1) :
            /\ SubSeq(dir, i, i + Len(Head(segs)) - 1) = Head(segs)
            /\ OccurInOrder(Tail(segs), dir, i + Len(Head(segs)))

\* C37: for a pattern whose directory is not '.', match is true exactly
\* when the basename matches the glob and the segments of the pattern
\* directory all occur in the directory of the path in the order of the
\* pattern; a path that holds the segments only in another order does not
\* match.
C37_SegmentsInPatternOrder ==
    (probe.fn = "match" /\ Dir(probe.in[1]) # << "." >>) =>
        probe.out = (/\ Glob(Base(probe.in[1]), Base(probe.in[2]))
                     /\ OccurInOrder(Segments(Dir(probe.in[1])),
                                     Dir(probe.in[2]), 1))

\* the formation a line asks for: each part that has a name gives it the
\* number written after the separator, 1 when there is none
RECURSIVE Asked(_, _)
Asked(parts, asked) ==
    IF parts = << >> THEN asked
    ELSE LET part == Head(parts)
         IN IF part.name = << >> THEN Asked(Tail(parts), asked)
            ELSE Asked(Tail(parts),
                       MapSet(asked, part.name,
                              IF part.qty.num THEN part.qty.n ELSE 1))

\* C39: ParseFormation gives every process name of the line the count 1
\* when its quantity is missing or is not a number and the number written
\* otherwise, with the separator ':' and with the separator '=' alike, and
\* gives the empty map for a blank line.
C39_FormationCounts ==
    probe.fn = "ParseFormation" => probe.out = Asked(probe.in, << >>)

\* the /logs requests in progress: the handler runs its loop, or has
\* reached a return and its deferred call has yet to end
InProgress == {s \in DOMAIN received : received[s].state # "returned"}

\* the requests whose channel is in r.logSubscribers
InList == {streams[n] : n \in DOMAIN streams}

\* C40: r.logSubscribers holds the channels of the /logs requests in
\* progress, each once and no other: the channel is there from the moment
\* the handler subscribes until its deferred unsubscribeLogFwd has run,
\* whatever made the handler return; a channel that was removed does not
\* come back, and the fan-out offers a message to the channels of the list
\* only, so nothing is sent to a channel after its removal.
C40_SubscribersAreRequestsInProgress ==
    /\ [](/\ InList = InProgress
          /\ Len(streams) = Cardinality(InProgress)
          /\ Len(logSubscribers) = Len(streams))
    /\ [][ /\ \A s \in DOMAIN received :
                 received[s].state = "returned"
                    => /\ received'[s].state = "returned"
                       /\ \A n \in DOMAIN streams' : streams'[n] # s
           /\ forwarded' # forwarded
                 => /\ streams' = streams
                    /\ \A n \in DOMAIN streams :
                          /\ streams[n] \in InProgress
                          /\ logSubscribers'[n] =
                                Offer(logSubscribers[n], Head(logs)) ]_vars

\* the first of two requests has returned without a frame and is out of
\* the list; the second one is still served and has written the line that
\* was forwarded
C40_Witness ==
    /\ Len(received) = 2
    /\ received[1].state = "returned"
    /\ received[1].frames = << >>
    /\ received[2].state = "serving"
    /\ streams = << 2 >>
    /\ logs = << >>
    /\ Len(forwarded) = 1
    /\ Len(received[2].frames) = 1

=============================================================================
